---- MODULE Spec2Model ----
(***************************************************************************)
(* Nina voice assistant: the voice pipelines of the repository.            *)
(*                                                                         *)
(*   - SimpleNinaVoice (nina_voice_simple.py): the capture thread          *)
(*     (_audio_loop, energy based voice activity detection) and the        *)
(*     processing thread (_process_loop, _process_command);                *)
(*   - NinaCore (nina_voice_system.py): _handle_input;                     *)
(*   - NinaIntegration (nina_agentic_integration.py): nina_speak,          *)
(*     on_speech_detected, process_voice_command.                          *)
(*                                                                         *)
(* The variable program says which of them is running; every action        *)
(* belongs to one of them.  The variable ev is a history variable: it      *)
(* records what the last step did (what it read, what it put, spoke and    *)
(* dispatched).                                                            *)
(***************************************************************************)
EXTENDS Integers, Sequences, FiniteSets, TLC

VARIABLES
    program,          \* which pipeline runs: "audio", "process", "core", "integration"
    now,              \* time.time(), in seconds
    \* SimpleNinaVoice
    is_listening,     \* self.is_listening
    is_speaking,      \* self.is_speaking
    is_active,        \* self.is_active (SimpleNinaVoice, NinaCore)
    wake_detected_time,   \* _process_loop: wake_detected_time
    last_interaction_time, \* NinaCore: self.last_interaction_time
    captured,         \* number of utterances the capture thread has put so far
    last_dispatch,    \* history: the time of the last dispatch (-1: none)
    in_call,          \* the thread that processes commands is inside a handler or
                      \* agent call that does not return
    audio_queue,      \* self.audio_queue (FIFO)
    buffer,           \* _audio_loop: buffer (the frames collected so far)
    silence_count,    \* _audio_loop: silence_count
    speech_detected,  \* _audio_loop: speech_detected
    seq,              \* sequence number of the last frame read
    run,              \* history: the loud run being observed (see RunNone)
    reading,          \* _audio_loop has passed the test of is_speaking (line 136)
                      \* and is in stream.read (line 141)
    echo,             \* history: buffer holds a frame read while is_speaking
    paused,           \* history: buffer holds frames collected before an
                      \* iteration that was muted (lines 136-138)
    \* NinaIntegration (is_speaking is nina_config["is_speaking"])
    stop_speaking,    \* self.stop_speaking (threading.Event): is it set
    player,           \* pygame.mixer.music: "idle" or "busy"
    awake,            \* nina_config["awake"]
    last_wake_time,   \* nina_config["last_wake_time"]
    pc,               \* where each on_speech_detected callback stands
    txt,              \* the text each callback holds
    cb,               \* history: what each callback saw and did at its interrupt
    sp,               \* history: the stop_speaking token each nina_speak call met
    \* Nina (nina_main.py)
    is_running,       \* self.is_running
    command_buffer,   \* self.command_buffer
    last_command_time, \* self.last_command_time
    ev                \* history: what the last step did

vars == <<program, now, is_listening, is_speaking, is_active, wake_detected_time,
          last_interaction_time, captured, last_dispatch, in_call, audio_queue,
          buffer, silence_count, speech_detected, seq, run, reading, echo, paused,
          stop_speaking, player, awake, last_wake_time, pc, txt, cb, sp,
          is_running, command_buffer, last_command_time, ev>>

procVars == <<is_active, wake_detected_time, last_interaction_time, captured,
              last_dispatch, in_call>>

audioVars == <<buffer, silence_count, speech_detected, seq, run, reading, echo,
               paused>>

intVars == <<stop_speaking, player, awake, last_wake_time, pc, txt, cb, sp>>

ninaVars == <<is_running, command_buffer, last_command_time>>

----------------------------------------------------------------------------
(* Bounds of the model *)

\* frames read by _audio_loop since the detector was last at rest
MaxFrames == 170

\* the clock stops at MaxTime
MaxTime == 14

\* utterances the capture thread puts on audio_queue for the processing thread
MaxUtterances == 2

\* texts Nina.start buffers before it processes them as one command
MaxBuffered == 2

\* on_speech_detected callbacks that run at the same time
MaxCallbacks == 2

\* utterances the capture thread puts while the processing thread transcribes
MaxPending == 3

Callbacks == 1 .. MaxCallbacks

\* history of a callback, kept until it has transcribed: when it tested
\* is_speaking (line 257), was a response playing, was no nina_speak call in
\* progress; did it take the interrupt branch, did it finish lines 258-259
\* history of a nina_speak call: was stop_speaking set when the call began
\* (after_cancel), and is that same token still set (stale)
SpNone == [after_cancel |-> FALSE, stale |-> FALSE]

CbNone == [playing |-> FALSE, quiet |-> FALSE, speaking |-> FALSE, cancelled |-> FALSE]

----------------------------------------------------------------------------
(* Program constants *)

energy_threshold == 1000
silence_chunks_needed == 8
min_speech_chunks == 15
MaxBufferChunks == 160
ActivationTimeout == 5
CoreTimeout == 10

\* the frame energies the microphone delivers: just below, at, just above the threshold
Energies == {energy_threshold - 1, energy_threshold, energy_threshold + 1}

----------------------------------------------------------------------------
(* History records *)

EvNone == [op |-> "none", frame |-> 0, energy |-> 0, put |-> << >>, reset |-> FALSE,
           echo |-> FALSE, joined |-> FALSE]

\* The loud run being observed: start is the number of its first frame (0: none),
\* clean says that no speech was in progress when it began, sil counts the frames
\* at or below the threshold that followed it, puts the utterances put on
\* audio_queue since it began.
RunNone == [start |-> 0, clean |-> FALSE, len |-> 0, sil |-> 0, puts |-> 0]

----------------------------------------------------------------------------
(* SimpleNinaVoice._audio_loop *)

\* line 148: energy > self.energy_threshold
IsSpeech(energy) == energy > energy_threshold

\* line 162: silence_count >= self.silence_chunks_needed
EndOfSpeech(count) == count >= silence_chunks_needed

\* mutant: the length test off by one
ValidSegmentOffByOne(buf) == Len(buf) >= min_speech_chunks - 1

\* line 163: len(buffer) >= self.min_speech_chunks
ValidSegment(buf) == Len(buf) >= min_speech_chunks

\* mutant: the guard one frame late
BufferOverflowLate(buf) == Len(buf) > MaxBufferChunks + 1

\* line 177: len(buffer) > 160
BufferOverflow(buf) == Len(buf) > MaxBufferChunks

\* One iteration of the loop body on frame f with the given energy (lines 147-181):
\* the new buffer, silence_count and speech_detected, the utterance put on
\* audio_queue (<< >>: none) and whether the overflow guard reset the buffer.
VadStep(buf, count, detected, f, energy) ==
    LET loud == IsSpeech(energy)
        buf1 == IF loud \/ detected THEN Append(buf, f) ELSE buf
        count1 == IF loud THEN 0 ELSE IF detected THEN count + 1 ELSE count
        detected1 == detected \/ loud
        close == ~loud /\ detected /\ EndOfSpeech(count1)
        put == IF close /\ ValidSegment(buf1) THEN buf1 ELSE << >>
        buf2 == IF close THEN << >> ELSE buf1
        count2 == IF close THEN 0 ELSE count1
        detected2 == IF close THEN FALSE ELSE detected1
        over == BufferOverflow(buf2)
    IN  [buffer |-> IF over THEN << >> ELSE buf2,
         silence_count |-> IF over THEN 0 ELSE count2,
         speech_detected |-> IF over THEN FALSE ELSE detected2,
         put |-> put,
         reset |-> over]

\* The history of the loud run after frame f: a frame above the threshold after a
\* frame at or below it begins a new run, frames at or below the threshold are
\* counted up to silence_chunks_needed, and the frame after that ends the observation.
RunStep(r, detected, f, energy, didPut) ==
    IF energy > energy_threshold
    THEN IF r.start = 0 \/ r.sil > 0
         THEN [start |-> f, clean |-> ~detected, len |-> 1, sil |-> 0, puts |-> 0]
         ELSE [r EXCEPT !.len = IF r.len < min_speech_chunks THEN r.len + 1 ELSE r.len]
    ELSE IF r.start = 0 \/ r.sil >= silence_chunks_needed
         THEN RunNone
         ELSE [r EXCEPT !.sil = r.sil + 1,
                        !.puts = r.puts + (IF didPut THEN 1 ELSE 0)]

\* One iteration of `while self.is_listening` (lines 133-184).  The processing
\* thread waits in audio_queue.get, so it takes an utterance off the queue before
\* the next frame has been read (QueueGet).  A stream.read that raises is caught
\* at lines 183-184: the message is printed and the loop goes on.
AudioLoop(read_ok, energy) ==
    /\ program = "audio"
    /\ is_listening
    /\ audio_queue = << >>
    /\ IF is_speaking
       THEN \* lines 136-138: sleep and continue, nothing is read
            /\ ev' = [EvNone EXCEPT !.op = "muted"]
            /\ UNCHANGED <<audio_queue, audioVars>>
       ELSE IF ~read_ok
       THEN /\ ev' = [EvNone EXCEPT !.op = "read_error"]
            /\ UNCHANGED <<audio_queue, audioVars>>
       ELSE /\ seq < MaxFrames
            /\ LET f == seq + 1
                   s == VadStep(buffer, silence_count, speech_detected, f, energy)
                   r == RunStep(run, speech_detected, f, energy, s.put # << >>)
                   rest == s.buffer = << >> /\ ~s.speech_detected
                           /\ (r.start = 0 \/ r.sil >= silence_chunks_needed)
               IN  /\ buffer' = s.buffer
                   /\ silence_count' = s.silence_count
                   /\ speech_detected' = s.speech_detected
                   /\ audio_queue' = IF s.put # << >> THEN Append(audio_queue, s.put)
                                     ELSE audio_queue
                   /\ run' = r
                   /\ seq' = IF rest THEN 0 ELSE f
                   /\ UNCHANGED <<reading, echo, paused>>
                   /\ ev' = [EvNone EXCEPT !.op = "frame", !.frame = f, !.energy = energy,
                                           !.put = s.put, !.reset = s.reset]
    /\ UNCHANGED <<ninaVars, intVars, program, now, is_listening, is_speaking, procVars>>

\* mutant: get takes the newest utterance
QueueAfterGetNewest(q) == SubSeq(q, 1, Len(q) - 1)

\* queue.Queue.get: the oldest item leaves the queue
QueueAfterGet(q) == Tail(q)

\* _process_loop line 196: audio_queue.get returns the oldest utterance
QueueGet ==
    /\ program \in {"audio", "capture", "echo"}
    /\ audio_queue # << >>
    /\ audio_queue' = QueueAfterGet(audio_queue)
    /\ UNCHANGED <<ninaVars, intVars, program, now, is_listening, is_speaking, procVars, audioVars, ev>>

\* the processing thread sets is_speaking around speech.speak (lines 240-242, 263, 337)
SpeakingFlips ==
    /\ program \in {"audio", "echo"}
    /\ is_speaking' = ~is_speaking
    /\ UNCHANGED <<ninaVars, intVars, program, now, is_listening, procVars, audio_queue, audioVars, ev>>

\* Nina.__init__ (nina_main.py lines 71-73)
InitNinaVars ==
    /\ is_running = TRUE
    /\ command_buffer = << >>
    /\ last_command_time = 0

\* NinaIntegration.__init__: nina_config (lines 49-57), stop_speaking (a new
\* threading.Event is clear), no callback running
InitIntegrationVars ==
    /\ stop_speaking = FALSE
    /\ player = "idle"
    /\ awake = TRUE
    /\ last_wake_time = 0
    /\ pc = [t \in Callbacks |-> "idle"]
    /\ txt = [t \in Callbacks |-> << >>]
    /\ cb = [t \in Callbacks |-> CbNone]
    /\ sp = [t \in Callbacks |-> SpNone]

InitAudio ==
    /\ program = "audio"
    /\ now = 0
    /\ is_listening = TRUE
    /\ is_speaking = FALSE
    /\ is_active = FALSE
    /\ wake_detected_time = 0
    /\ last_interaction_time = 0
    /\ captured = 0
    /\ last_dispatch = -1
    /\ in_call = FALSE
    /\ audio_queue = << >>
    /\ buffer = << >>
    /\ silence_count = 0
    /\ speech_detected = FALSE
    /\ seq = 0
    /\ run = RunNone
    /\ reading = FALSE
    /\ echo = FALSE
    /\ paused = FALSE
    /\ InitIntegrationVars
    /\ InitNinaVars
    /\ ev = EvNone

NextAudio ==
    \/ \E energy \in Energies : AudioLoop(TRUE, energy)
    \/ AudioLoop(FALSE, 0)
    \/ QueueGet
    \/ SpeakingFlips

SpecAudio == InitAudio /\ [][NextAudio]_vars

----------------------------------------------------------------------------
(* SimpleNinaVoice._audio_loop, step by step *)

\* The iteration of AudioLoop as the two steps the processing thread can come
\* between: the test of is_speaking (lines 136-138) ...
AudioTest ==
    /\ program = "echo"
    /\ is_listening
    /\ audio_queue = << >>
    /\ ~reading
    /\ IF is_speaking
       THEN /\ ev' = [EvNone EXCEPT !.op = "muted"]
            /\ paused' = (paused \/ buffer # << >>)
            /\ UNCHANGED reading
       ELSE /\ ev' = [EvNone EXCEPT !.op = "test"]
            /\ reading' = TRUE
            /\ UNCHANGED paused
    /\ UNCHANGED <<ninaVars, intVars, program, now, is_listening, is_speaking, procVars,
                   audio_queue, buffer, silence_count, speech_detected, seq, run, echo>>

\* ... and stream.read with the rest of the body (lines 141-181).  The frame
\* was read during playback when is_speaking is True by the time read returns.
AudioRead(energy) ==
    /\ program = "echo"
    /\ reading
    /\ seq < MaxFrames
    /\ LET f == seq + 1
           s == VadStep(buffer, silence_count, speech_detected, f, energy)
           kept == IsSpeech(energy) \/ speech_detected
           heard == echo \/ (is_speaking /\ kept)
       IN  /\ buffer' = s.buffer
           /\ silence_count' = s.silence_count
           /\ speech_detected' = s.speech_detected
           /\ audio_queue' = IF s.put # << >> THEN Append(audio_queue, s.put)
                             ELSE audio_queue
           /\ seq' = IF s.buffer = << >> /\ ~s.speech_detected THEN 0 ELSE f
           /\ echo' = (s.buffer # << >> /\ heard)
           /\ paused' = (s.buffer # << >> /\ paused)
           /\ ev' = [EvNone EXCEPT !.op = "frame", !.frame = f, !.energy = energy,
                                   !.put = s.put, !.reset = s.reset,
                                   !.echo = (s.put # << >> /\ heard),
                                   !.joined = (s.put # << >> /\ paused)]
    /\ reading' = FALSE
    /\ UNCHANGED <<ninaVars, intVars, program, now, is_listening, is_speaking, procVars,
                   run>>

InitEcho ==
    /\ program = "echo"
    /\ now = 0
    /\ is_listening = TRUE
    /\ is_speaking = FALSE
    /\ is_active = FALSE
    /\ wake_detected_time = 0
    /\ last_interaction_time = 0
    /\ captured = 0
    /\ last_dispatch = -1
    /\ in_call = FALSE
    /\ audio_queue = << >>
    /\ buffer = << >>
    /\ silence_count = 0
    /\ speech_detected = FALSE
    /\ seq = 0
    /\ run = RunNone
    /\ reading = FALSE
    /\ echo = FALSE
    /\ paused = FALSE
    /\ InitIntegrationVars
    /\ InitNinaVars
    /\ ev = EvNone

NextEcho ==
    \/ AudioTest
    \/ \E energy \in Energies : AudioRead(energy)
    \/ QueueGet
    \/ SpeakingFlips

\* the capture thread and the processing thread, step by step
SpecEcho == InitEcho /\ [][NextEcho]_vars

----------------------------------------------------------------------------
(* NinaCore._audio_capture_loop (nina_voice_system.py) *)

\* line 391: len(buffer) > 50 or (silence_chunks > 15 and len(buffer) > 10)
capture_max_chunks == 50
capture_silence_chunks == 15
capture_min_chunks == 10

Flush(buf, count) ==
    \/ Len(buf) > capture_max_chunks
    \/ count > capture_silence_chunks /\ Len(buf) > capture_min_chunks

\* One iteration of `while self.engine.is_listening` (lines 375-404): the chunk
\* read is silent or not, and so is the audio combined at a flush
\* (is_silence, lines 385 and 396).  A stream.read that raises is caught at
\* lines 403-404: the message is printed and the loop goes on.  Chunks are
\* numbered from the last flush.
CaptureLoop(read_ok, silent, all_silent) ==
    /\ program = "capture"
    /\ is_listening
    /\ audio_queue = << >>
    /\ IF ~read_ok
       THEN /\ ev' = [EvNone EXCEPT !.op = "read_error"]
            /\ UNCHANGED <<audio_queue, audioVars>>
       ELSE LET f == seq + 1
                buf1 == Append(buffer, f)
                count1 == IF silent THEN silence_count + 1 ELSE 0
                flush == Flush(buf1, count1)
                put == IF flush /\ ~all_silent THEN buf1 ELSE << >>
            IN  /\ flush \/ ~all_silent
                /\ buffer' = IF flush THEN << >> ELSE buf1
                /\ silence_count' = IF flush THEN 0 ELSE count1
                /\ seq' = IF flush THEN 0 ELSE f
                /\ audio_queue' = IF put # << >> THEN Append(audio_queue, put)
                                  ELSE audio_queue
                /\ ev' = [EvNone EXCEPT !.op = "frame", !.frame = f, !.put = put,
                                        !.reset = flush]
                /\ UNCHANGED <<speech_detected, run, reading, echo, paused>>
    /\ UNCHANGED <<ninaVars, intVars, program, now, is_listening, is_speaking, procVars>>

\* NinaCore.start has started the capture thread (lines 371-373)
InitCapture ==
    /\ program = "capture"
    /\ now = 0
    /\ is_listening = TRUE
    /\ is_speaking = FALSE
    /\ is_active = FALSE
    /\ wake_detected_time = 0
    /\ last_interaction_time = 0
    /\ captured = 0
    /\ last_dispatch = -1
    /\ in_call = FALSE
    /\ audio_queue = << >>
    /\ buffer = << >>
    /\ silence_count = 0
    /\ speech_detected = FALSE
    /\ seq = 0
    /\ run = RunNone
    /\ reading = FALSE
    /\ echo = FALSE
    /\ paused = FALSE
    /\ InitIntegrationVars
    /\ InitNinaVars
    /\ ev = EvNone

NextCapture ==
    \/ \E silent \in BOOLEAN, all_silent \in BOOLEAN : CaptureLoop(TRUE, silent, all_silent)
    \/ CaptureLoop(FALSE, FALSE, FALSE)
    \/ QueueGet

\* the two capture loops
SpecCaptureLoops == (InitAudio \/ InitCapture) /\ [][NextAudio \/ NextCapture]_vars

----------------------------------------------------------------------------
(* Texts: a string is the sequence of its characters *)

Uppers == <<"A", "B", "C", "D", "E", "F", "G", "H", "I", "J", "K", "L", "M",
            "N", "O", "P", "Q", "R", "S", "T", "U", "V", "W", "X", "Y", "Z">>
Lowers == <<"a", "b", "c", "d", "e", "f", "g", "h", "i", "j", "k", "l", "m",
            "n", "o", "p", "q", "r", "s", "t", "u", "v", "w", "x", "y", "z">>

\* str.lower()
LowerChar(c) ==
    IF \E i \in DOMAIN Uppers : Uppers[i] = c
    THEN Lowers[CHOOSE i \in DOMAIN Uppers : Uppers[i] = c]
    ELSE c
Lower(s) == [i \in 1 .. Len(s) |-> LowerChar(s[i])]

\* sub in s (sub not empty)
Contains(sub, s) ==
    \E i \in 1 .. (Len(s) - Len(sub) + 1) : SubSeq(s, i, i + Len(sub) - 1) = sub

\* s.find(sub), counted from 1; sub occurs in s
Find(sub, s) ==
    CHOOSE i \in 1 .. (Len(s) - Len(sub) + 1) :
        /\ SubSeq(s, i, i + Len(sub) - 1) = sub
        /\ \A j \in 1 .. (i - 1) : SubSeq(s, j, j + Len(sub) - 1) # sub

\* str.strip()
Strip(s) ==
    LET idx == {i \in 1 .. Len(s) : s[i] # " "}
    IN  IF idx = {} THEN << >>
        ELSE SubSeq(s, CHOOSE i \in idx : \A j \in idx : i <= j,
                       CHOOSE i \in idx : \A j \in idx : j <= i)

\* str.replace(sub, ''): every occurrence, left to right
RECURSIVE RemoveAll(_, _)
RemoveAll(sub, s) ==
    IF Len(s) < Len(sub) THEN s
    ELSE IF SubSeq(s, 1, Len(sub)) = sub
         THEN RemoveAll(sub, SubSeq(s, Len(sub) + 1, Len(s)))
         ELSE <<s[1]>> \o RemoveAll(sub, Tail(s))

\* any(phrase in s for phrase in list)
AnyIn(list, s) == \E k \in DOMAIN list : Contains(list[k], s)

wake_word == <<"n", "i", "n", "a">>
nina_phrases == <<
    <<"q", "u", "a", "l", "i", "t", "y", " ", "i", "s", " ", "a", "c", "c", "e", "p", "t", "a", "b", "l", "e">>,
    <<"i", "'", "m", " ", "s", "e", "n", "s", "i", "t", "i", "v", "e">>,
    <<"y", "e", "s", ",", " ", "i", "'", "m", " ", "l", "i", "s", "t", "e", "n", "i", "n", "g">>,
    <<"n", "i", "n", "a", " ", "r", "e", "a", "d", "y">>,
    <<"g", "o", "o", "d", "b", "y", "e">>
>>
exit_words == <<
    <<"g", "o", "o", "d", "b", "y", "e">>,
    <<"b", "y", "e">>,
    <<"e", "x", "i", "t">>,
    <<"q", "u", "i", "t">>,
    <<"s", "h", "u", "t", "d", "o", "w", "n">>,
    <<"s", "t", "o", "p">>,
    <<"t", "u", "r", "n", " ", "o", "f", "f">>,
    <<"s", "h", "u", "t", " ", "d", "o", "w", "n">>
>>
quick_triggers == <<
    <<"h", "o", "w", " ", "a", "r", "e", " ", "y", "o", "u">>,
    <<"h", "e", "l", "l", "o">>,
    <<"h", "i">>,
    <<"t", "h", "a", "n", "k", " ", "y", "o", "u">>,
    <<"t", "h", "a", "n", "k", "s">>
>>
T_empty == <<>>
T_blank == <<" ">>
T_nina == <<"n", "i", "n", "a">>
T_NinaDot == <<"N", "i", "n", "a", ".">>
T_nina_ok == <<"n", "i", "n", "a", " ", "o", "k">>
T_nina_time == <<"N", "i", "n", "a", " ", "w", "h", "a", "t", " ", "t", "i", "m", "e", " ", "i", "s", " ", "i", "t">>
T_time == <<"w", "h", "a", "t", " ", "t", "i", "m", "e", " ", "i", "s", " ", "i", "t">>
T_resume == <<" ", "f", "i", "n", "d", " ", "m", "y", " ", "r", "e", "s", "u", "m", "e">>
T_nina_stop == <<"n", "i", "n", "a", " ", "s", "t", "o", "p">>
T_stop == <<"s", "t", "o", "p">>
T_goodbye == <<"G", "o", "o", "d", "b", "y", "e">>
T_nina_goodbye == <<"n", "i", "n", "a", " ", "g", "o", "o", "d", "b", "y", "e">>
T_nina_thanks == <<"n", "i", "n", "a", " ", "t", "h", "a", "n", "k", "s">>
T_this == <<"w", "h", "a", "t", " ", "i", "s", " ", "t", "h", "i", "s">>

\* what the transcriber may return for an utterance
Transcripts == {T_empty, T_blank, T_nina, T_NinaDot, T_nina_ok, T_nina_time, T_time,
                T_resume, T_nina_stop, T_stop, T_goodbye, T_nina_goodbye, T_nina_thanks,
                T_this}

core_exit_words == <<
    <<"g", "o", "o", "d", "b", "y", "e">>,
    <<"b", "y", "e">>,
    <<"e", "x", "i", "t">>,
    <<"q", "u", "i", "t">>
>>

quick_responses == <<"I'm doing great, thank you for asking!", "Hello! How can I help you?",
                     "Hi there! What can I do for you?", "You're welcome!", "Happy to help!">>

\* router.select_agent(command): an agent of one of these types, or None
Agents == {"none", "casual_agent", "browser_agent", "coder_agent"}

\* agent.process(command, mock_speech): an answer, an empty answer, or an exception
Outcomes == {"answer", "empty", "raise"}

\* ... or no return at all
DispatchOutcomes == Outcomes \cup {"hang"}

----------------------------------------------------------------------------
(* SimpleNinaVoice._process_loop and _process_command *)

\* sinceDispatch: the seconds since the last dispatch before this step, counted up
\* to ActivationTimeout (never dispatched: ActivationTimeout)
EvP == [op |-> "none", text |-> << >>, wasActive |-> FALSE, elapsed |-> 0,
        sinceDispatch |-> ActivationTimeout,
        selected |-> "-", spoken |-> << >>, dispatched |-> << >>, agent |-> << >>,
        speak_failed |-> FALSE]

SinceDispatch(t, last) ==
    IF last < 0 \/ t - last >= ActivationTimeout THEN ActivationTimeout ELSE t - last

\* line 207: text and len(text.strip()) > 0
IsTranscript(text) == Len(Strip(text)) > 0

\* line 219: any(phrase in text.lower() for phrase in nina_phrases)
OwnSpeech(text) == AnyIn(nina_phrases, Lower(text))

\* line 224: self.wake_word in text.lower()
HasWakeWord(text) == Contains(wake_word, Lower(text))

\* mutant: the .strip() of line 231 forgotten
CommandPartUnstripped(text) ==
    LET wake_index == Find(wake_word, Lower(text))
    IN  SubSeq(text, wake_index + Len(wake_word), Len(text))

\* lines 229-231: the text after the first wake word, stripped
CommandPart(text) ==
    LET wake_index == Find(wake_word, Lower(text))
    IN  Strip(SubSeq(text, wake_index + Len(wake_word), Len(text)))

\* mutant: the length test off by one
HasCommandOffByOne(command_part) == Len(command_part) > 1

\* line 233: command_part and len(command_part) > 2
HasCommand(command_part) == Len(command_part) > 2

\* mutant: the window one second short
InWindowShort(t, wake_time) == t - wake_time < ActivationTimeout - 1

\* mutant: the timeout of NinaCore used for the window
InWindowCoreTimeout(t, wake_time) == t - wake_time < CoreTimeout

\* line 245: time.time() - wake_detected_time < 5
InWindow(t, wake_time) == t - wake_time < ActivationTimeout

\* mutant: the is_active test forgotten
ActiveCommandNoFlag(active, t, wake_time) == InWindow(t, wake_time)

\* line 245: self.is_active and (time.time() - wake_detected_time < 5)
ActiveCommand(active, t, wake_time) == active /\ InWindow(t, wake_time)

\* mutant: the operands of the subtraction swapped
TimedOutSwapped(t, wake_time) == wake_time - t > ActivationTimeout

\* line 252: time.time() - wake_detected_time > 5
TimedOut(t, wake_time) == t - wake_time > ActivationTimeout

\* line 268: any(word in command.lower() for word in exit_words)
IsExit(command) == AnyIn(exit_words, Lower(command))

\* lines 287-291: the response of the first trigger the command contains
IsQuick(command) == AnyIn(quick_triggers, Lower(command))
QuickResponse(command) ==
    quick_responses[CHOOSE k \in DOMAIN quick_triggers :
        /\ Contains(quick_triggers[k], Lower(command))
        /\ \A j \in 1 .. (k - 1) : ~Contains(quick_triggers[j], Lower(command))]

\* _process_command (lines 258-337): what is spoken, the commands handed to
\* agent.process, and whether the exit branch was taken
ProcessCommand(command, agent, outcome, speak_ok) ==
    LET ack == IF agent = "browser_agent" THEN <<"Let me search for that...">>
               ELSE IF agent = "coder_agent" THEN <<"Writing code...">> ELSE << >>
        said(text) == [spoken |-> <<text>>, agent |-> << >>, exit |-> FALSE,
                       blocked |-> FALSE, raised |-> FALSE, speak_failed |-> FALSE]
        \* speech.speak raises inside the try: the except clause speaks too
        \* (line 334) and raises again, the finally clause runs (line 337) and
        \* the exception leaves _process_command
        failed(called) == [spoken |-> << >>, agent |-> called, exit |-> FALSE,
                           blocked |-> FALSE, raised |-> TRUE, speak_failed |-> TRUE]
    IN  IF IsExit(command)
        THEN IF speak_ok THEN [said("Shutting down. Goodbye!") EXCEPT !.exit = TRUE]
             ELSE failed(<< >>)
        ELSE IF IsQuick(command)
        THEN IF speak_ok THEN said(QuickResponse(command)) ELSE failed(<< >>)
        ELSE IF agent = "none"
        THEN IF speak_ok THEN said("I'm not sure how to help with that.")
             ELSE failed(<< >>)
        ELSE IF ~speak_ok /\ ack # << >> THEN failed(<< >>)
        ELSE IF outcome = "hang"
        THEN \* line 320: await agent.process never returns
             [spoken |-> ack, agent |-> <<command>>, exit |-> FALSE,
              blocked |-> TRUE, raised |-> FALSE, speak_failed |-> FALSE]
        ELSE IF ~speak_ok THEN failed(<<command>>)
        ELSE [spoken |->
                  ack \o (IF outcome = "answer" THEN <<"answer">>
                          ELSE IF outcome = "empty"
                               THEN <<"I couldn't process that request.">>
                          ELSE <<"I encountered an error.">>),
              agent |-> <<command>>, exit |-> FALSE,
              blocked |-> FALSE, raised |-> FALSE, speak_failed |-> FALSE]

\* The tests of _process_loop on a transcript (lines 207-233, 247) and
\* _process_command on the command it yields; routed says that the command
\* reaches the router and the agent.
Facts(text) ==
    LET wake == HasWakeWord(text)
        command == IF wake THEN CommandPart(text) ELSE Strip(text)
        result == [agent \in Agents, outcome \in DispatchOutcomes, speak_ok \in BOOLEAN |->
                      ProcessCommand(command, agent, outcome, speak_ok)]
    IN  [transcript |-> IsTranscript(text),
         own |-> OwnSpeech(text),
         wake |-> wake,
         command |-> command,
         has_command |-> HasCommand(command),
         routed |-> ~IsExit(command) /\ ~IsQuick(command),
         result |-> result]

\* a transcript in which the wake word is part of a longer word
T_karenina == <<"a", "n", "n", "a", " ", "k", "a", "r", "e", "n", "i", "n", "a">>

TextFacts == [text \in Transcripts \cup {T_karenina} |-> Facts(text)]

\* The body of _process_loop for one transcribed text (lines 207-248), at time t:
\* the new is_active and wake_detected_time, the commands dispatched to
\* _process_command, what was spoken and handed to agent.process, and exit.
HandleTranscript(f, active, wake_time, t, agent, outcome, speak_ok) ==
    LET idle == [op |-> "transcript", is_active |-> active, wake_time |-> wake_time,
                 dispatched |-> << >>, spoken |-> << >>, agent |-> << >>, exit |-> FALSE,
                 blocked |-> FALSE, speak_failed |-> FALSE, speaking |-> FALSE]
        c == f.result[agent, outcome, speak_ok]
        \* the command returned and the line after the call was reached
        returned == ~c.exit /\ ~c.blocked /\ ~c.raised
        command == [idle EXCEPT !.is_active = ~returned,
                                !.dispatched = <<f.command>>,
                                !.spoken = c.spoken, !.agent = c.agent,
                                !.exit = c.exit, !.blocked = c.blocked,
                                !.speak_failed = c.speak_failed,
                                !.speaking = c.exit \/ c.blocked]
    IN  IF ~f.transcript THEN [idle EXCEPT !.op = "nothing"]
        ELSE IF f.own THEN idle
        ELSE IF f.wake
        THEN IF f.has_command
             THEN \* lines 234-237; the exit branch never returns
                  [command EXCEPT !.wake_time = t]
             ELSE \* lines 239-242; if speak raises line 242 is not reached
                  IF speak_ok
                  THEN [idle EXCEPT !.is_active = TRUE, !.wake_time = t,
                                    !.spoken = <<"Yes?">>]
                  ELSE [idle EXCEPT !.is_active = TRUE, !.wake_time = t,
                                    !.speak_failed = TRUE, !.speaking = TRUE]
        ELSE IF ActiveCommand(active, t, wake_time)
        THEN \* lines 246-248
             command
        ELSE idle

\* One iteration of `while self.is_listening` with an utterance on the queue
\* (lines 193-248): get, skip while speaking, transcribe, handle.  The exit
\* branch of _process_command ends the process (os._exit) inside the command.
\* An exception is caught at lines 255-256 and the loop goes on; a call that
\* does not return keeps the thread.
\* The agent the router selects, what agent.process does (one of outcomes) and
\* whether speech.speak works (one of speaks) are inputs of the iteration.
ProcessLoopGet(text, outcomes, speaks) ==
    /\ program = "process"
    /\ is_listening
    /\ ~in_call
    /\ audio_queue # << >>
    /\ audio_queue' = QueueAfterGet(audio_queue)
    /\ IF is_speaking
       THEN /\ ev' = [EvP EXCEPT !.op = "skipped"]
            /\ UNCHANGED <<is_listening, is_speaking, is_active, wake_detected_time,
                           last_dispatch, in_call>>
       ELSE LET f == TextFacts[text]
            IN  \E agent \in Agents, outcome \in outcomes, speak_ok \in speaks :
                  LET h == HandleTranscript(f, is_active, wake_detected_time, now,
                                            agent, outcome, speak_ok)
                  IN  /\ f.routed \/ (agent = "none" /\ outcome = "answer")
                      /\ speak_ok \/ h.speak_failed
                      /\ is_active' = h.is_active
                      /\ wake_detected_time' = h.wake_time
                      /\ is_listening' = ~h.exit
                      /\ is_speaking' = h.speaking
                      /\ in_call' = h.blocked
                      /\ last_dispatch' = IF h.dispatched = << >> THEN last_dispatch
                                          ELSE now
                      /\ ev' = [op |-> h.op, text |-> text, wasActive |-> is_active,
                                elapsed |-> now - wake_detected_time,
                                sinceDispatch |-> SinceDispatch(now, last_dispatch),
                                selected |-> IF h.dispatched = << >> THEN "-" ELSE agent,
                                spoken |-> h.spoken, dispatched |-> h.dispatched,
                                agent |-> h.agent, speak_failed |-> h.speak_failed]
    /\ UNCHANGED <<ninaVars, intVars, program, now, last_interaction_time, captured,
                   audioVars>>

\* One iteration with an empty queue (lines 196, 250-254): get times out
ProcessLoopEmpty ==
    /\ program = "process"
    /\ is_listening
    /\ ~in_call
    /\ audio_queue = << >>
    /\ IF is_active /\ TimedOut(now, wake_detected_time)
       THEN /\ is_active' = FALSE
            /\ ev' = [EvP EXCEPT !.op = "timeout", !.wasActive = TRUE,
                                 !.elapsed = now - wake_detected_time]
       ELSE /\ is_active' = is_active
            /\ ev' = [EvP EXCEPT !.op = "empty", !.wasActive = is_active,
                                 !.elapsed = now - wake_detected_time]
    /\ UNCHANGED <<ninaVars, intVars, program, now, is_listening, is_speaking, wake_detected_time,
                   last_interaction_time, captured, last_dispatch, in_call,
                   audio_queue, audioVars>>

\* mutant: the capture thread deactivates when it puts an utterance
CaptureDeactivates ==
    /\ program = "process"
    /\ is_listening
    /\ captured < MaxUtterances
    /\ captured' = captured + 1
    /\ audio_queue' = Append(audio_queue, captured + 1)
    /\ is_active' = FALSE
    /\ UNCHANGED <<ninaVars, intVars, program, now, is_listening, is_speaking,
                   wake_detected_time, last_interaction_time, last_dispatch,
                   in_call, audioVars, ev>>

\* _audio_loop line 166: the capture thread puts an utterance on the queue
Capture ==
    /\ program = "process"
    /\ is_listening
    /\ captured < MaxUtterances
    /\ captured' = captured + 1
    /\ audio_queue' = Append(audio_queue, captured + 1)
    /\ UNCHANGED <<ninaVars, intVars, program, now, is_listening, is_speaking, is_active,
                   wake_detected_time, last_interaction_time, last_dispatch,
                   in_call, audioVars, ev>>

\* time passes
Tick ==
    /\ program \in {"process", "core", "nina", "voice"}
    /\ now < MaxTime
    /\ now' = now + 1
    /\ UNCHANGED <<ninaVars, intVars, program, is_listening, is_speaking, procVars, audio_queue,
                   audioVars, ev>>

\* wake_detected_time = 0 (line 191) lies further back than the timeout
InitProcess ==
    /\ program = "process"
    /\ now = ActivationTimeout + 1
    /\ is_listening = TRUE
    /\ is_speaking = FALSE
    /\ is_active = FALSE
    /\ wake_detected_time = 0
    /\ last_interaction_time = 0
    /\ captured = 0
    /\ last_dispatch = -1
    /\ in_call = FALSE
    /\ audio_queue = << >>
    /\ buffer = << >>
    /\ silence_count = 0
    /\ speech_detected = FALSE
    /\ seq = 0
    /\ run = RunNone
    /\ reading = FALSE
    /\ echo = FALSE
    /\ paused = FALSE
    /\ InitIntegrationVars
    /\ InitNinaVars
    /\ ev = EvP

NextProcess ==
    \/ \E text \in Transcripts : ProcessLoopGet(text, Outcomes, {TRUE})
    \/ ProcessLoopEmpty
    \/ Capture
    \/ Tick

SpecProcess == InitProcess /\ [][NextProcess]_vars

\* ... with agents that may not return and a speech.speak that may raise, on
\* a wake word, commands with and without it, an exit and a quick response
FailureTranscripts == {T_nina, T_nina_time, T_time, T_nina_stop, T_nina_thanks}

NextProcessFailures ==
    \/ \E text \in FailureTranscripts : ProcessLoopGet(text, DispatchOutcomes, BOOLEAN)
    \/ ProcessLoopEmpty
    \/ Capture
    \/ Tick

SpecProcessFailures == InitProcess /\ [][NextProcessFailures]_vars

\* line 166 while the processing thread is in transcript_job (line 204): the
\* capture thread goes on reading, and every utterance that closes is put
CaptureWhileTranscribing ==
    /\ program = "process"
    /\ is_listening
    /\ ~is_speaking
    /\ captured < MaxPending
    /\ captured' = captured + 1
    /\ audio_queue' = Append(audio_queue, captured + 1)
    /\ UNCHANGED <<ninaVars, intVars, program, now, is_listening, is_speaking, is_active,
                   wake_detected_time, last_interaction_time, last_dispatch,
                   in_call, audioVars, ev>>

\* ... on a wake word and a command
NextBacklog ==
    \/ \E text \in {T_nina, T_time} : ProcessLoopGet(text, Outcomes, {TRUE})
    \/ ProcessLoopEmpty
    \/ CaptureWhileTranscribing
    \/ Tick

SpecBacklog == InitProcess /\ [][NextBacklog]_vars

\* the two threads of SimpleNinaVoice.start (lines 74-78): _process_loop with
\* the puts of _audio_loop, and _audio_loop step by step
SpecThreads == (InitProcess \/ InitEcho) /\ [][NextProcess \/ NextEcho]_vars

\* the processing thread keeps running its loop, and time passes
FairSpecProcess ==
    SpecProcess /\ WF_vars(ProcessLoopEmpty) /\ WF_vars(Tick)

----------------------------------------------------------------------------
(* NinaCore._handle_input *)

\* lines 435, 438, 462, 465 on a transcript: the lowered text contains the wake
\* word; the command is the lowered text without the wake word, stripped
CoreFacts ==
    [text \in Transcripts |->
        LET lowered == Lower(text)
            command == Strip(RemoveAll(wake_word, lowered))
        IN  [wake |-> Contains(wake_word, lowered),
             command |-> command,
             exit |-> AnyIn(core_exit_words, command)]]

\* line 493: (time.time() - self.last_interaction_time) > self.config['timeout']
CoreTimedOut(t, last) == t - last > CoreTimeout

\* _handle_input (lines 433-494) at time t; outcome is what interaction.think does
\* (an answer, no answer, an exception, which leaves _handle_input at once)
HandleInput(text, active, last, t, outcome) ==
    LET f == CoreFacts[text]
        same == [is_active |-> active, last |-> last, spoken |-> << >>,
                 dispatched |-> << >>]
    IN  IF f.wake /\ ~active
        THEN [same EXCEPT !.is_active = TRUE, !.last = t, !.spoken = <<"greeting">>]
        ELSE IF active
        THEN IF f.exit
             THEN [same EXCEPT !.is_active = FALSE,
                               !.spoken = <<"Goodbye! Talk to you later.">>]
             ELSE IF f.command # << >> /\ outcome = "raise"
             THEN [same EXCEPT !.dispatched = <<f.command>>]
             ELSE [is_active |-> ~CoreTimedOut(t, t),
                   last |-> t,
                   spoken |-> IF f.command # << >> /\ outcome = "answer"
                              THEN <<"answer">> ELSE << >>,
                   dispatched |-> IF f.command # << >> THEN <<f.command>> ELSE << >>]
        ELSE same

\* _processing_loop (lines 413-431) on one utterance that transcribes to text
CoreHandleInput(text, outcome) ==
    /\ program = "core"
    /\ is_listening
    /\ IsTranscript(text)
    /\ LET h == HandleInput(text, is_active, last_interaction_time, now, outcome)
       IN  /\ is_active' = h.is_active
           /\ last_interaction_time' = h.last
           /\ ev' = [EvP EXCEPT !.op = "transcript", !.text = text,
                                !.wasActive = is_active,
                                !.elapsed = now - last_interaction_time,
                                !.spoken = h.spoken, !.dispatched = h.dispatched]
    /\ UNCHANGED <<ninaVars, intVars, program, now, is_listening, is_speaking, wake_detected_time,
                   captured, last_dispatch, in_call, audio_queue, audioVars>>

\* NinaCore.__init__ (lines 332-333)
InitCore ==
    /\ program = "core"
    /\ now = 0
    /\ is_listening = TRUE
    /\ is_speaking = FALSE
    /\ is_active = FALSE
    /\ wake_detected_time = 0
    /\ last_interaction_time = now
    /\ captured = 0
    /\ last_dispatch = -1
    /\ in_call = FALSE
    /\ audio_queue = << >>
    /\ buffer = << >>
    /\ silence_count = 0
    /\ speech_detected = FALSE
    /\ seq = 0
    /\ run = RunNone
    /\ reading = FALSE
    /\ echo = FALSE
    /\ paused = FALSE
    /\ InitIntegrationVars
    /\ InitNinaVars
    /\ ev = EvP

NextCore ==
    \/ \E text \in Transcripts, outcome \in Outcomes : CoreHandleInput(text, outcome)
    \/ Tick

SpecCore == InitCore /\ [][NextCore]_vars

\* the two activation state machines, one or the other running
SpecActivation == (InitProcess \/ InitCore) /\ [][NextProcess \/ NextCore]_vars


----------------------------------------------------------------------------
(* Claims about _audio_loop *)

\* the last step read the frame that completed the silence run after a loud run
\* that began while no speech was in progress
RunClosed == ev.op = "frame" /\ run.clean /\ run.sil = silence_chunks_needed

\* C1: a run of at least min_speech_chunks frames above the threshold, begun while
\* no speech was in progress, followed by silence_chunks_needed frames at or below
\* it, puts exactly one utterance on audio_queue, and that utterance holds every
\* frame from the first one above the threshold to the last one of the silence run.
C1_OneUtterancePerSpeech ==
    (RunClosed /\ run.len >= min_speech_chunks)
        => /\ run.puts = 1
           /\ ev.put # << >>
           /\ \A k \in run.start .. ev.frame : \E i \in DOMAIN ev.put : ev.put[i] = k

\* C2 as stated: a burst of fewer than min_speech_chunks frames above the
\* threshold followed by silence puts no utterance on audio_queue.
C2_ShortBurstDiscarded ==
    (RunClosed /\ run.len < min_speech_chunks) => (ev.put = << >> /\ run.puts = 0)

\* C2 amended: the trailing silence counts towards min_speech_chunks, so it is a
\* burst of fewer than min_speech_chunks - silence_chunks_needed frames above the
\* threshold that puts no utterance on audio_queue.
C2_BurstBelowMinusSilenceDiscarded ==
    (RunClosed /\ run.len + silence_chunks_needed < min_speech_chunks)
        => (ev.put = << >> /\ run.puts = 0)

\* a burst one frame short of the limit was closed and discarded
C2_Witness ==
    /\ RunClosed
    /\ run.len + silence_chunks_needed = min_speech_chunks - 1
    /\ ev.put = << >>
    /\ buffer = << >>
----------------------------------------------------------------------------
(* NinaIntegration: on_speech_detected, process_voice_command, nina_speak *)

\* nina_config["wake_patterns"] (line 52)
wake_patterns == <<
    <<"n", "i", "n", "a">>,
    <<"n", "e", "n", "a">>,
    <<"m", "i", "n", "a">>,
    <<"l", "i", "n", "a">>>>

\* the patterns remove_wake_word removes, in its order (line 207)
remove_patterns == <<
    <<"n", "i", "n", "a">>,
    <<"h", "e", "y", " ", "n", "i", "n", "a">>,
    <<"h", "i", " ", "n", "i", "n", "a">>,
    <<"h", "e", "l", "l", "o", " ", "n", "i", "n", "a">>,
    <<"o", "k", " ", "n", "i", "n", "a">>>>

\* the texts whisper returns in this model
IntegrationTranscripts == {T_blank, T_nina, T_nina_time, T_time}

\* what nina_speak is asked to say
SayYes == "Yes? How can I help?"
SayTrouble == "I had trouble understanding that."
SaySorry == "Sorry, I encountered an error."

\* interaction.think: it returns True and the agent has a last_answer, it
\* returns True and there is none, it returns False, it raises
ThinkOutcomes == {"answer", "empty", "fail", "raise"}

\* is_wake_word (lines 199-202)
IsWakeWord(text) == AnyIn(wake_patterns, Lower(text))

\* remove_wake_word, the loop of lines 207-208 from pattern k on
RECURSIVE RemovePatterns(_, _)
RemovePatterns(text_lower, k) ==
    IF k > Len(remove_patterns) THEN text_lower
    ELSE RemovePatterns(Strip(RemoveAll(remove_patterns[k], text_lower)), k + 1)

\* remove_wake_word (lines 204-209)
RemoveWakeWord(text) ==
    LET text_lower == RemovePatterns(Lower(text), 1)
    IN  IF text_lower # << >> THEN text_lower ELSE text

\* line 222: command and len(command) > 2
VoiceHasCommand(command) == Len(command) > 2

\* line 272: len(text) < 2
TooShort(text) == Len(text) < 2

\* the texts a callback can hold after line 270, and what
\* process_voice_command computes from each
HeardTexts == {Strip(text) : text \in IntegrationTranscripts}
VoiceFacts ==
    [text \in HeardTexts |->
        [wake |-> IsWakeWord(text), command |-> RemoveWakeWord(text)]]

\* the positions of a callback inside nina_speak
SpeakPcs == {"speak_begin", "speak_clear", "speak_synth", "speak_play",
             "speak_loop", "speak_finally"}

\* some nina_speak call is in progress
SpeakerActive == \E u \in Callbacks : pc[u] \in SpeakPcs

\* some nina_speak call is in its playback loop and the music plays
Playing == player = "busy" /\ \E u \in Callbacks : pc[u] = "speak_loop"

\* mutant: the test of line 257 forgotten
InterruptsAlways(speaking) == TRUE

\* line 257: if self.nina_config["is_speaking"]
Interrupts(speaking) == speaking

\* vad_stream calls callback_on_speech for a speech segment; a segment is
\* handed to a task of its own, so that callbacks overlap
VadStream(t) ==
    /\ program = "integration"
    /\ pc[t] = "idle"
    /\ \A u \in Callbacks : u < t => pc[u] # "idle"
    /\ pc' = [pc EXCEPT ![t] = "detected"]
    /\ cb' = [cb EXCEPT ![t] = CbNone]
    /\ UNCHANGED <<ninaVars, program, now, is_listening, is_speaking, procVars, audio_queue,
                   audioVars, stop_speaking, player, awake, last_wake_time, txt, ev, sp>>

\* on_speech_detected line 257: the test of is_speaking
InterruptTest(t) ==
    /\ program = "integration"
    /\ pc[t] = "detected"
    /\ pc' = [pc EXCEPT ![t] = IF Interrupts(is_speaking) THEN "set" ELSE "transcribe"]
    /\ cb' = [cb EXCEPT ![t] = [playing |-> Playing, quiet |-> ~SpeakerActive,
                                speaking |-> Interrupts(is_speaking),
                                cancelled |-> FALSE]]
    /\ UNCHANGED <<ninaVars, program, now, is_listening, is_speaking, procVars, audio_queue,
                   audioVars, stop_speaking, player, awake, last_wake_time, txt, ev, sp>>

\* on_speech_detected line 258: self.stop_speaking.set()
InterruptSet(t) ==
    /\ program = "integration"
    /\ pc[t] = "set"
    /\ stop_speaking' = TRUE
    /\ pc' = [pc EXCEPT ![t] = "stop"]
    /\ UNCHANGED <<ninaVars, program, now, is_listening, is_speaking, procVars, audio_queue,
                   audioVars, player, awake, last_wake_time, txt, cb, ev, sp>>

\* on_speech_detected lines 259-260: pygame.mixer.music.stop(), time.sleep(0.1)
InterruptStop(t) ==
    /\ program = "integration"
    /\ pc[t] = "stop"
    /\ player' = "idle"
    /\ pc' = [pc EXCEPT ![t] = "transcribe"]
    /\ cb' = [cb EXCEPT ![t].cancelled = TRUE]
    /\ UNCHANGED <<ninaVars, program, now, is_listening, is_speaking, procVars, audio_queue,
                   audioVars, stop_speaking, awake, last_wake_time, txt, ev, sp>>

\* on_speech_detected lines 263-275, 279-280: transcribe; an exception is
\* printed, a text of fewer than 2 characters is dropped
Transcribe(t, text, ok) ==
    /\ program = "integration"
    /\ pc[t] = "transcribe"
    /\ IF ok /\ ~TooShort(Strip(text))
       THEN /\ pc' = [pc EXCEPT ![t] = "command"]
            /\ txt' = [txt EXCEPT ![t] = Strip(text)]
       ELSE /\ pc' = [pc EXCEPT ![t] = "idle"]
            /\ txt' = [txt EXCEPT ![t] = << >>]
    /\ cb' = [cb EXCEPT ![t] = CbNone]
    /\ UNCHANGED <<ninaVars, program, now, is_listening, is_speaking, procVars, audio_queue,
                   audioVars, stop_speaking, player, awake, last_wake_time, ev, sp>>

\* process_voice_command lines 214-236: the wake word and the awake test
ProcessVoiceCommand(t) ==
    /\ program = "integration"
    /\ pc[t] = "command"
    /\ LET f == VoiceFacts[txt[t]]
           wake_only == f.wake /\ ~VoiceHasCommand(f.command)
           text == IF f.wake THEN f.command ELSE txt[t]
           is_awake == f.wake \/ awake
       IN  /\ awake' = is_awake
           /\ last_wake_time' = IF f.wake THEN now ELSE last_wake_time
           /\ IF wake_only
              THEN /\ pc' = [pc EXCEPT ![t] = "speak_begin"]
                   /\ txt' = [txt EXCEPT ![t] = SayYes]
              ELSE IF ~is_awake
              THEN /\ pc' = [pc EXCEPT ![t] = "idle"]
                   /\ txt' = [txt EXCEPT ![t] = << >>]
              ELSE /\ pc' = [pc EXCEPT ![t] = "think"]
                   /\ txt' = [txt EXCEPT ![t] = text]
    /\ UNCHANGED <<ninaVars, program, now, is_listening, is_speaking, procVars, audio_queue,
                   audioVars, stop_speaking, player, cb, ev, sp>>

\* what process_voice_command speaks after interaction.think (lines 240-252).
\* nina_speak_answer (line 191) calls asyncio.run inside the event loop that
\* runs process_voice_command: asyncio.run raises RuntimeError there, and the
\* except clause of line 250 speaks the apology instead of the answer.
AfterThink(outcome) ==
    CASE outcome = "answer" -> <<SaySorry>>
      [] outcome = "empty"  -> << >>
      [] outcome = "fail"   -> <<SayTrouble>>
      [] outcome = "raise"  -> <<SaySorry>>

\* process_voice_command lines 238-252: interaction.think and the answer
Think(t, outcome) ==
    /\ program = "integration"
    /\ pc[t] = "think"
    /\ LET say == AfterThink(outcome)
       IN  /\ IF say = << >>
              THEN /\ pc' = [pc EXCEPT ![t] = "idle"]
                   /\ txt' = [txt EXCEPT ![t] = << >>]
              ELSE /\ pc' = [pc EXCEPT ![t] = "speak_begin"]
                   /\ txt' = [txt EXCEPT ![t] = say[1]]
    /\ UNCHANGED <<ninaVars, program, now, is_listening, is_speaking, procVars, audio_queue,
                   audioVars, stop_speaking, player, awake, last_wake_time, cb, ev, sp>>

\* nina_speak line 157: is_speaking = True
SpeakBegin(t) ==
    /\ program = "integration"
    /\ pc[t] = "speak_begin"
    /\ is_speaking' = TRUE
    /\ pc' = [pc EXCEPT ![t] = "speak_clear"]
    /\ sp' = [sp EXCEPT ![t] = [after_cancel |-> stop_speaking, stale |-> stop_speaking]]
    /\ UNCHANGED <<ninaVars, program, now, is_listening, procVars, audio_queue, audioVars,
                   stop_speaking, player, awake, last_wake_time, txt, cb, ev>>

\* mutant: the clear() of line 158 forgotten
SpeakClearForgotten(t) ==
    /\ program = "integration"
    /\ pc[t] = "speak_clear"
    /\ pc' = [pc EXCEPT ![t] = "speak_synth"]
    /\ UNCHANGED <<ninaVars, program, now, is_listening, is_speaking, procVars, audio_queue,
                   audioVars, stop_speaking, player, awake, last_wake_time, txt, cb,
                   sp, ev>>

\* nina_speak line 158: self.stop_speaking.clear()
SpeakClear(t) ==
    /\ program = "integration"
    /\ pc[t] = "speak_clear"
    /\ stop_speaking' = FALSE
    /\ pc' = [pc EXCEPT ![t] = "speak_synth"]
    /\ sp' = [u \in Callbacks |-> [sp[u] EXCEPT !.stale = FALSE]]
    /\ UNCHANGED <<ninaVars, program, now, is_listening, is_speaking, procVars, audio_queue,
                   audioVars, player, awake, last_wake_time, txt, cb, ev>>

\* nina_speak lines 160-174: edge_tts synthesis and music.load; an exception
\* goes to the finally clause
SpeakSynth(t, ok) ==
    /\ program = "integration"
    /\ pc[t] = "speak_synth"
    /\ pc' = [pc EXCEPT ![t] = IF ok THEN "speak_play" ELSE "speak_finally"]
    /\ UNCHANGED <<ninaVars, program, now, is_listening, is_speaking, procVars, audio_queue,
                   audioVars, stop_speaking, player, awake, last_wake_time, txt,
                   cb, ev, sp>>

\* nina_speak line 175: pygame.mixer.music.play()
SpeakPlay(t) ==
    /\ program = "integration"
    /\ pc[t] = "speak_play"
    /\ player' = "busy"
    /\ pc' = [pc EXCEPT ![t] = "speak_loop"]
    /\ UNCHANGED <<ninaVars, program, now, is_listening, is_speaking, procVars, audio_queue,
                   audioVars, stop_speaking, awake, last_wake_time, txt, cb, ev, sp>>

\* nina_speak lines 177-181: one pass of the playback loop that leaves it (a
\* pass that sleeps changes nothing)
SpeakPoll(t) ==
    /\ program = "integration"
    /\ pc[t] = "speak_loop"
    /\ player = "idle" \/ stop_speaking
    /\ player' = "idle"
    /\ pc' = [pc EXCEPT ![t] = "speak_finally"]
    /\ UNCHANGED <<ninaVars, program, now, is_listening, is_speaking, procVars, audio_queue,
                   audioVars, stop_speaking, awake, last_wake_time, txt, cb, ev, sp>>

\* the music reaches its end
PlaybackEnds ==
    /\ program = "integration"
    /\ player = "busy"
    /\ player' = "idle"
    /\ UNCHANGED <<ninaVars, program, now, is_listening, is_speaking, procVars, audio_queue,
                   audioVars, stop_speaking, awake, last_wake_time, pc, txt, cb, ev, sp>>

\* nina_speak lines 185-186: finally, is_speaking = False
SpeakFinally(t) ==
    /\ program = "integration"
    /\ pc[t] = "speak_finally"
    /\ is_speaking' = FALSE
    /\ pc' = [pc EXCEPT ![t] = "idle"]
    /\ txt' = [txt EXCEPT ![t] = << >>]
    /\ sp' = [sp EXCEPT ![t] = SpNone]
    /\ UNCHANGED <<ninaVars, program, now, is_listening, procVars, audio_queue, audioVars,
                   stop_speaking, player, awake, last_wake_time, cb, ev>>

\* NinaIntegration.__init__
InitIntegration ==
    /\ program = "integration"
    /\ now = 1
    /\ is_listening = TRUE
    /\ is_speaking = FALSE
    /\ is_active = FALSE
    /\ wake_detected_time = 0
    /\ last_interaction_time = 0
    /\ captured = 0
    /\ last_dispatch = -1
    /\ in_call = FALSE
    /\ audio_queue = << >>
    /\ buffer = << >>
    /\ silence_count = 0
    /\ speech_detected = FALSE
    /\ seq = 0
    /\ run = RunNone
    /\ reading = FALSE
    /\ echo = FALSE
    /\ paused = FALSE
    /\ InitIntegrationVars
    /\ InitNinaVars
    /\ ev = EvNone

NextIntegration ==
    \/ \E t \in Callbacks : VadStream(t)
    \/ \E t \in Callbacks : InterruptTest(t)
    \/ \E t \in Callbacks : InterruptSet(t)
    \/ \E t \in Callbacks : InterruptStop(t)
    \/ \E t \in Callbacks, text \in IntegrationTranscripts, ok \in BOOLEAN :
           Transcribe(t, text, ok)
    \/ \E t \in Callbacks : ProcessVoiceCommand(t)
    \/ \E t \in Callbacks, outcome \in ThinkOutcomes : Think(t, outcome)
    \/ \E t \in Callbacks : SpeakBegin(t)
    \/ \E t \in Callbacks : SpeakClear(t)
    \/ \E t \in Callbacks, ok \in BOOLEAN : SpeakSynth(t, ok)
    \/ \E t \in Callbacks : SpeakPlay(t)
    \/ \E t \in Callbacks : SpeakPoll(t)
    \/ PlaybackEnds
    \/ \E t \in Callbacks : SpeakFinally(t)

SpecIntegration == InitIntegration /\ [][NextIntegration]_vars

----------------------------------------------------------------------------
(* NinaIntegration: one callback at a time *)

V_Nina == <<"N", "i", "n", "a">>
V_hey_nina == <<"h", "e", "y", " ", "n", "i", "n", "a">>
V_mina_time == <<"M", "i", "n", "a", " ", "w", "h", "a", "t", " ", "t", "i", "m", "e">>
V_lina_ok == <<"l", "i", "n", "a", " ", "o", "k">>
V_terminal == <<"o", "p", "e", "n", " ", "t", "e", "r", "m", "i", "n", "a", "l">>
V_ok == <<"o", "k">>

\* the texts whisper returns to a callback
VoiceTranscripts == {T_blank, T_nina, V_Nina, T_NinaDot, T_nina_time, T_time,
                     V_hey_nina, V_mina_time, V_lina_ok, V_terminal, V_ok}

EvV == [op |-> "none", text |-> << >>, wake |-> FALSE, wasAwake |-> FALSE,
        elapsed |-> 0, spoken |-> << >>, thought |-> << >>]

\* process_voice_command (lines 211-252) on text while awake is was_awake:
\* is the text a wake word, what nina_speak is asked to say, and the text set
\* as last_user_input for interaction.think (<< >>: think is not called)
VoiceCommand(text, was_awake, outcome) ==
    LET wake == IsWakeWord(text)
        command == RemoveWakeWord(text)
        input == IF wake THEN command ELSE text
    IN  IF wake /\ ~VoiceHasCommand(command)
        THEN [wake |-> TRUE, awake |-> TRUE, spoken |-> <<SayYes>>, thought |-> << >>]
        ELSE IF ~(wake \/ was_awake)
        THEN [wake |-> FALSE, awake |-> FALSE, spoken |-> << >>, thought |-> << >>]
        ELSE [wake |-> wake, awake |-> TRUE, spoken |-> AfterThink(outcome),
              thought |-> <<input>>]

\* lines 270-275 on each text whisper returns: the stripped text, whether it
\* is dropped, and what process_voice_command does with it
VoiceCommands ==
    [text \in VoiceTranscripts |->
        LET heard == Strip(text)
        IN  [heard |-> heard,
             short |-> TooShort(heard),
             result |-> [was_awake \in BOOLEAN, outcome \in ThinkOutcomes |->
                            VoiceCommand(heard, was_awake, outcome)]]]

\* on_speech_detected (lines 254-280) with no other callback running: the
\* text is transcribed and stripped, dropped when shorter than 2 characters,
\* and handed to process_voice_command, which runs to its end
OnSpeechDetected(text, outcome) ==
    /\ program = "voice"
    /\ LET c == VoiceCommands[text]
       IN  IF c.short
           THEN /\ ev' = [EvV EXCEPT !.op = "dropped", !.text = text]
                /\ UNCHANGED <<awake, last_wake_time>>
           ELSE LET v == c.result[awake, outcome]
                IN  /\ awake' = v.awake
                    /\ last_wake_time' = IF v.wake THEN now ELSE last_wake_time
                    /\ ev' = [op |-> "command", text |-> c.heard, wake |-> v.wake,
                              wasAwake |-> awake, elapsed |-> now - last_wake_time,
                              spoken |-> v.spoken, thought |-> v.thought]
    /\ UNCHANGED <<ninaVars, program, now, is_listening, is_speaking, procVars, audio_queue,
                   audioVars, stop_speaking, player, pc, txt, cb, sp>>

\* NinaIntegration.__init__ (lines 49-57)
InitVoice ==
    /\ program = "voice"
    /\ now = 0
    /\ is_listening = TRUE
    /\ is_speaking = FALSE
    /\ is_active = FALSE
    /\ wake_detected_time = 0
    /\ last_interaction_time = 0
    /\ captured = 0
    /\ last_dispatch = -1
    /\ in_call = FALSE
    /\ audio_queue = << >>
    /\ buffer = << >>
    /\ silence_count = 0
    /\ speech_detected = FALSE
    /\ seq = 0
    /\ run = RunNone
    /\ reading = FALSE
    /\ echo = FALSE
    /\ paused = FALSE
    /\ InitIntegrationVars
    /\ InitNinaVars
    /\ ev = EvV

NextVoice ==
    \/ \E text \in VoiceTranscripts, outcome \in ThinkOutcomes :
           OnSpeechDetected(text, outcome)
    \/ Tick

SpecVoice == InitVoice /\ [][NextVoice]_vars

\* the wake-word tests of SimpleNinaVoice._process_loop and of NinaIntegration,
\* one or the other running
NextWakeWord ==
    \/ \E text \in {T_nina, T_nina_time, T_time, T_karenina} :
           ProcessLoopGet(text, Outcomes, {TRUE})
    \/ ProcessLoopEmpty
    \/ Capture
    \/ Tick

SpecWakeWord == (InitProcess \/ InitVoice) /\ [][NextWakeWord \/ NextVoice]_vars


----------------------------------------------------------------------------
(* Nina (nina_main.py) and CommandHandlers (nina_handlers.py): the texts *)

\* str.replace(old, new): every occurrence, from the left, without overlap
RECURSIVE Replace(_, _, _)
Replace(old, new, s) ==
    IF Len(s) < Len(old) THEN s
    ELSE IF SubSeq(s, 1, Len(old)) = old
    THEN new \o Replace(old, new, SubSeq(s, Len(old) + 1, Len(s)))
    ELSE <<s[1]>> \o Replace(old, new, Tail(s))

\* re.sub(re.escape(old), new, s, flags=re.IGNORECASE), old in lower case
RECURSIVE ReplaceIgnoreCase(_, _, _)
ReplaceIgnoreCase(old, new, s) ==
    IF Len(s) < Len(old) THEN s
    ELSE IF Lower(SubSeq(s, 1, Len(old))) = old
    THEN new \o ReplaceIgnoreCase(old, new, SubSeq(s, Len(old) + 1, Len(s)))
    ELSE <<s[1]>> \o ReplaceIgnoreCase(old, new, Tail(s))

\* str.split(): the words between runs of blanks
RECURSIVE SplitWords(_)
SplitWords(s) ==
    IF s = << >> THEN << >>
    ELSE IF s[1] = " " THEN SplitWords(Tail(s))
    ELSE LET blanks == {i \in 1 .. Len(s) : s[i] = " "}
             stop == IF blanks = {} THEN Len(s) + 1
                     ELSE CHOOSE i \in blanks : \A j \in blanks : i <= j
         IN  <<SubSeq(s, 1, stop - 1)>> \o SplitWords(SubSeq(s, stop, Len(s)))

\* ' '.join(words)
RECURSIVE JoinWords(_)
JoinWords(words) ==
    IF words = << >> THEN << >>
    ELSE IF Len(words) = 1 THEN words[1]
    ELSE words[1] \o <<" ">> \o JoinWords(Tail(words))

\* nina_utils.convert_spoken_symbols: conversions (lines 76-90), in dict order
conversions == <<
    <<<<" ", "u", "n", "d", "e", "r", "s", "c", "o", "r", "e", " ">>, <<"_">>>>,
    <<<<" ", "d", "o", "t", " ">>, <<".">>>>,
    <<<<" ", "d", "a", "s", "h", " ">>, <<"-">>>>,
    <<<<" ", "s", "l", "a", "s", "h", " ">>, <<"/">>>>,
    <<<<" ", "b", "a", "c", "k", "s", "l", "a", "s", "h", " ">>, <<"\\">>>>,
    <<<<" ", "a", "t", " ">>, <<"@">>>>,
    <<<<" ", "h", "a", "s", "h", "t", "a", "g", " ">>, <<"#">>>>,
    <<<<" ", "d", "o", "l", "l", "a", "r", " ", "s", "i", "g", "n", " ">>, <<"$">>>>,
    <<<<" ", "p", "e", "r", "c", "e", "n", "t", " ">>, <<"%">>>>,
    <<<<" ", "a", "m", "p", "e", "r", "s", "a", "n", "d", " ">>, <<"&">>>>,
    <<<<" ", "a", "s", "t", "e", "r", "i", "s", "k", " ">>, <<"*">>>>,
    <<<<" ", "p", "l", "u", "s", " ">>, <<"+">>>>,
    <<<<" ", "e", "q", "u", "a", "l", "s", " ">>, <<"=">>>>>>

\* convert_spoken_symbols (lines 74-95), from entry k on
RECURSIVE ConvertFrom(_, _)
ConvertFrom(text, k) ==
    IF k > Len(conversions) THEN text
    ELSE ConvertFrom(Replace(conversions[k][1], conversions[k][2], text), k + 1)

ConvertSpokenSymbols(text) == ConvertFrom(text, 1)

\* convert_spoken_numbers_to_digits: number_words (lines 142-148)
number_words == <<
    <<<<"z", "e", "r", "o">>, <<"0">>>>,
    <<<<"o", "n", "e">>, <<"1">>>>,
    <<<<"t", "w", "o">>, <<"2">>>>,
    <<<<"t", "h", "r", "e", "e">>, <<"3">>>>,
    <<<<"f", "o", "u", "r">>, <<"4">>>>,
    <<<<"f", "i", "v", "e">>, <<"5">>>>,
    <<<<"s", "i", "x">>, <<"6">>>>,
    <<<<"s", "e", "v", "e", "n">>, <<"7">>>>,
    <<<<"e", "i", "g", "h", "t">>, <<"8">>>>,
    <<<<"n", "i", "n", "e">>, <<"9">>>>,
    <<<<"t", "e", "n">>, <<"1", "0">>>>,
    <<<<"e", "l", "e", "v", "e", "n">>, <<"1", "1">>>>,
    <<<<"t", "w", "e", "l", "v", "e">>, <<"1", "2">>>>,
    <<<<"t", "h", "i", "r", "t", "e", "e", "n">>, <<"1", "3">>>>,
    <<<<"f", "o", "u", "r", "t", "e", "e", "n">>, <<"1", "4">>>>,
    <<<<"f", "i", "f", "t", "e", "e", "n">>, <<"1", "5">>>>,
    <<<<"s", "i", "x", "t", "e", "e", "n">>, <<"1", "6">>>>,
    <<<<"s", "e", "v", "e", "n", "t", "e", "e", "n">>, <<"1", "7">>>>,
    <<<<"e", "i", "g", "h", "t", "e", "e", "n">>, <<"1", "8">>>>,
    <<<<"n", "i", "n", "e", "t", "e", "e", "n">>, <<"1", "9">>>>,
    <<<<"t", "w", "e", "n", "t", "y">>, <<"2", "0">>>>>>

Digits == {"0", "1", "2", "3", "4", "5", "6", "7", "8", "9"}
Punctuation == {".", ",", "!", "?", ";", ":"}

\* word.lower().strip('.,!?;:')
RECURSIVE StripPunctuation(_)
StripPunctuation(word) ==
    IF word = << >> THEN word
    ELSE IF word[1] \in Punctuation THEN StripPunctuation(Tail(word))
    ELSE IF word[Len(word)] \in Punctuation
    THEN StripPunctuation(SubSeq(word, 1, Len(word) - 1))
    ELSE word

\* lines 154-169 on one word: a number word becomes its digits, with one
\* leading and one trailing punctuation mark kept
NumberWord(word) ==
    LET clean_word == StripPunctuation(Lower(word))
        hits == {k \in DOMAIN number_words : number_words[k][1] = clean_word}
    IN  IF hits = {} THEN word
        ELSE LET k == CHOOSE h \in hits : TRUE
                 prefix == IF word[1] \in Punctuation THEN <<word[1]>> ELSE << >>
                 rest == IF word[1] \in Punctuation THEN Tail(word) ELSE word
                 suffix == IF rest # << >> /\ rest[Len(rest)] \in Punctuation
                           THEN <<rest[Len(rest)]>> ELSE << >>
             IN  prefix \o number_words[k][2] \o suffix

\* the end of the run of characters of set chars that starts at i (i - 1: none)
RECURSIVE RunEnd(_, _, _)
RunEnd(s, i, chars) ==
    IF i <= Len(s) /\ s[i] \in chars THEN RunEnd(s, i + 1, chars) ELSE i - 1

\* where (\d+)\s*lit\s*(\d+) matched at i ends (0: no match at i)
MatchEnd(s, i, lit) ==
    LET a == RunEnd(s, i, Digits)
        b == RunEnd(s, a + 1, {" "}) + 1
        c == RunEnd(s, b + Len(lit), {" "}) + 1
        d == RunEnd(s, c, Digits)
    IN  IF a >= i /\ b + Len(lit) - 1 <= Len(s)
           /\ SubSeq(s, b, b + Len(lit) - 1) = lit /\ d >= c
        THEN d ELSE 0

\* re.sub(r'(\d+)\s*lit\s*(\d+)', r'\1.\2', s), from position i on
RECURSIVE JoinNumbers(_, _, _)
JoinNumbers(s, i, lit) ==
    IF i > Len(s) THEN << >>
    ELSE LET d == MatchEnd(s, i, lit)
         IN  IF d = 0 THEN <<s[i]>> \o JoinNumbers(s, i + 1, lit)
             ELSE LET a == RunEnd(s, i, Digits)
                      c == RunEnd(s, RunEnd(s, a + 1, {" "}) + 1 + Len(lit), {" "}) + 1
                  IN  SubSeq(s, i, a) \o <<".">> \o SubSeq(s, c, d)
                          \o JoinNumbers(s, d + 1, lit)

\* convert_spoken_numbers_to_digits (lines 139-177)
ConvertSpokenNumbersToDigits(text) ==
    LET words == SplitWords(text)
        new_words == [k \in DOMAIN words |-> NumberWord(words[k])]
        joined == JoinWords(new_words)
    IN  JoinNumbers(JoinNumbers(joined, 1, <<"g", "o", "t">>), 1, <<"t", "o">>)

\* fix_voice_recognition_errors: the words that call for digits (line 101)
number_contexts == <<
    <<"p", "i", "n", "g">>,
    <<"i", "p">>,
    <<"a", "d", "d", "r", "e", "s", "s">>,
    <<"t", "r", "a", "c", "e", "r", "o", "u", "t", "e">>,
    <<"s", "s", "h">>,
    <<"t", "e", "l", "n", "e", "t">>>>

\* fix_voice_recognition_errors: fixes (lines 104-126), in dict order
fixes == <<
    <<<<"g", "u", "a", "r", "d", "e", "d", " ", "c", "o", "r", "e">>, <<"g", "u", "a", "r", "d", "i", "c", "o", "r", "e">>>>,
    <<<<"g", "u", "a", "r", "d", " ", "c", "o", "r", "p", "s">>, <<"g", "u", "a", "r", "d", "i", "c", "o", "r", "e">>>>,
    <<<<"g", "u", "a", "r", "d", "i", "a", "n", " ", "c", "o", "r", "e">>, <<"g", "u", "a", "r", "d", "i", "c", "o", "r", "e">>>>,
    <<<<"g", "a", "r", "d", "e", "n", " ", "c", "o", "r", "e">>, <<"g", "u", "a", "r", "d", "i", "c", "o", "r", "e">>>>,
    <<<<"g", "u", "a", "r", "d", " ", "a", " ", "c", "o", "r", "e">>, <<"g", "u", "a", "r", "d", "i", "c", "o", "r", "e">>>>,
    <<<<"g", "u", "a", "r", "d", " ", "a", " ", "c", "o", "r", "p", "s">>, <<"g", "u", "a", "r", "d", "i", "c", "o", "r", "e">>>>,
    <<<<"m", "y", " ", "a", "s", "s", " ", "t", "h", "i", "s">>, <<"m", "a", "e", "s", "t", "a", "s">>>>,
    <<<<"m", "y", " ", "e", "s", "t", "u", "s">>, <<"m", "a", "e", "s", "t", "a", "s">>>>,
    <<<<"m", "y", " ", "e", "s", "t", "a", "s">>, <<"m", "a", "e", "s", "t", "a", "s">>>>,
    <<<<"d", "o", "t", " ", "p", "d", "f">>, <<".", "p", "d", "f">>>>,
    <<<<"d", "o", "t", " ", "d", "o", "c">>, <<".", "d", "o", "c">>>>,
    <<<<"d", "o", "t", " ", "d", "o", "c", "x">>, <<".", "d", "o", "c", "x">>>>,
    <<<<"e", "i", "g", "h", "t", ".", "e", "i", "g", "h", "t", ".", "e", "i", "g", "h", "t", ".", "e", "i", "g", "h", "t">>, <<"8", ".", "8", ".", "8", ".", "8">>>>,
    <<<<"e", "i", "g", "h", "t", " ", "d", "o", "t", " ", "e", "i", "g", "h", "t", " ", "d", "o", "t", " ", "e", "i", "g", "h", "t", " ", "d", "o", "t", " ", "e", "i", "g", "h", "t">>, <<"8", ".", "8", ".", "8", ".", "8">>>>,
    <<<<"o", "n", "e", ".", "o", "n", "e", ".", "o", "n", "e", ".", "o", "n", "e">>, <<"1", ".", "1", ".", "1", ".", "1">>>>,
    <<<<"o", "n", "e", " ", "d", "o", "t", " ", "o", "n", "e", " ", "d", "o", "t", " ", "o", "n", "e", " ", "d", "o", "t", " ", "o", "n", "e">>, <<"1", ".", "1", ".", "1", ".", "1">>>>>>

\* lines 128-133 from entry k on; text_lower is computed once, before the loop
RECURSIVE FixFrom(_, _, _)
FixFrom(text, text_lower, k) ==
    IF k > Len(fixes) THEN text
    ELSE FixFrom(IF Contains(fixes[k][1], text_lower)
                 THEN ReplaceIgnoreCase(fixes[k][1], fixes[k][2], text)
                 ELSE text,
                 text_lower, k + 1)

\* fix_voice_recognition_errors (lines 98-135)
FixVoiceRecognitionErrors(text) ==
    LET numbered == IF AnyIn(number_contexts, Lower(text))
                    THEN ConvertSpokenNumbersToDigits(text) ELSE text
    IN  FixFrom(numbered, Lower(numbered), 1)

----------------------------------------------------------------------------
(* IntentDetector (nina_intent.py) *)

\* is_schedule_query (line 15)
schedule_keywords == <<
    <<"s", "c", "h", "e", "d", "u", "l", "e">>,
    <<"m", "e", "e", "t", "i", "n", "g">>,
    <<"a", "p", "p", "o", "i", "n", "t", "m", "e", "n", "t">>,
    <<"c", "a", "l", "e", "n", "d", "a", "r">>,
    <<"a", "g", "e", "n", "d", "a">>>>

\* is_vision_query (lines 20-26)
vision_query_keywords == <<
    <<"w", "h", "a", "t", " ", "s", "c", "r", "e", "e", "n">>,
    <<"w", "h", "a", "t", " ", "d", "o", " ", "y", "o", "u", " ", "s", "e", "e">>,
    <<"c", "a", "n", " ", "y", "o", "u", " ", "s", "e", "e">>,
    <<"l", "o", "o", "k", " ", "a", "t">>,
    <<"w", "h", "a", "t", "'", "s", " ", "o", "n", " ", "m", "y", " ", "s", "c", "r", "e", "e", "n">>,
    <<"w", "h", "a", "t", " ", "a", "m", " ", "i", " ", "l", "o", "o", "k", "i", "n", "g", " ", "a", "t">>,
    <<"h", "e", "l", "p", " ", "m", "e", " ", "w", "i", "t", "h", " ", "t", "h", "i", "s">>,
    <<"h", "e", "l", "p", " ", "w", "i", "t", "h", " ", "c", "u", "r", "r", "e", "n", "t">>,
    <<"r", "e", "a", "d", " ", "t", "h", "e", " ", "s", "c", "r", "e", "e", "n">>,
    <<"w", "h", "a", "t", " ", "w", "i", "n", "d", "o", "w">>,
    <<"w", "h", "i", "c", "h", " ", "a", "p", "p", "l", "i", "c", "a", "t", "i", "o", "n">>,
    <<"w", "h", "a", "t", " ", "a", "p", "p">>,
    <<"d", "e", "s", "c", "r", "i", "b", "e", " ", "w", "h", "a", "t">>,
    <<"t", "e", "l", "l", " ", "m", "e", " ", "w", "h", "a", "t", " ", "y", "o", "u", " ", "s", "e", "e">>>>

\* line 39
fix_python_words == <<
    <<"p", "y", "t", "h", "o", "n">>,
    <<"c", "o", "d", "e">>,
    <<"i", "n", "d", "e", "n", "t", "a", "t", "i", "o", "n">>,
    <<"f", "o", "r", "m", "a", "t", "t", "i", "n", "g">>>>

\* lines 43-51
tech_keywords == <<
    <<"p", "i", "n", "g">>,
    <<"t", "r", "a", "c", "e", "r", "o", "u", "t", "e">>,
    <<"t", "r", "a", "c", "e", "r", "t">>,
    <<"i", "p", "c", "o", "n", "f", "i", "g">>,
    <<"i", "p", " ", "a", "d", "d", "r", "e", "s", "s">>,
    <<"s", "s", "i", "d">>,
    <<"c", "m", "d">>,
    <<"c", "o", "m", "m", "a", "n", "d", " ", "p", "r", "o", "m", "p", "t">>,
    <<"p", "o", "w", "e", "r", "s", "h", "e", "l", "l">>,
    <<"t", "e", "r", "m", "i", "n", "a", "l">>,
    <<"a", "d", "m", "i", "n">>,
    <<"b", "l", "u", "e", "t", "o", "o", "t", "h">>,
    <<"w", "i", "f", "i">>,
    <<"n", "e", "t", "w", "o", "r", "k">>,
    <<"d", "n", "s">>,
    <<"f", "i", "r", "e", "w", "a", "l", "l">>,
    <<"t", "a", "s", "k", " ", "m", "a", "n", "a", "g", "e", "r">>,
    <<"d", "e", "v", "i", "c", "e", " ", "m", "a", "n", "a", "g", "e", "r">>,
    <<"s", "e", "r", "v", "i", "c", "e", "s">>,
    <<"r", "e", "g", "i", "s", "t", "r", "y">>,
    <<"d", "i", "s", "k", " ", "m", "a", "n", "a", "g", "e", "m", "e", "n", "t">>,
    <<"d", "e", "f", "r", "a", "g">>,
    <<"s", "y", "s", "t", "e", "m", " ", "i", "n", "f", "o">>,
    <<"n", "e", "t", "s", "t", "a", "t">>,
    <<"a", "r", "p">>,
    <<"p", "o", "r", "t", "s">>,
    <<"p", "r", "o", "c", "e", "s", "s", "e", "s">>,
    <<"m", "s", "c", "o", "n", "f", "i", "g">>,
    <<"e", "v", "e", "n", "t", " ", "v", "i", "e", "w", "e", "r">>,
    <<"d", "e", "f", "e", "n", "d", "e", "r">>,
    <<"u", "p", "d", "a", "t", "e", "s">>>>

\* line 63
website_verbs == <<
    <<"o", "p", "e", "n">>,
    <<"g", "o", " ", "t", "o">>,
    <<"v", "i", "s", "i", "t">>,
    <<"s", "h", "o", "w">>>>

\* lines 74-75
hardware_words == <<
    <<"m", "e", "m", "o", "r", "y">>,
    <<"r", "a", "m">>,
    <<"d", "i", "s", "k">>,
    <<"s", "p", "a", "c", "e">>,
    <<"s", "t", "o", "r", "a", "g", "e">>,
    <<"g", "p", "u">>,
    <<"g", "r", "a", "p", "h", "i", "c", "s">>,
    <<"h", "a", "r", "d", "w", "a", "r", "e">>,
    <<"s", "y", "s", "t", "e", "m">>,
    <<"s", "p", "e", "c", "s">>,
    <<"h", "o", "w", " ", "m", "u", "c", "h">>>>

\* line 77
hardware_sure_words == <<
    <<"m", "e", "m", "o", "r", "y">>,
    <<"r", "a", "m">>,
    <<"d", "i", "s", "k">>,
    <<"s", "p", "a", "c", "e">>,
    <<"s", "t", "o", "r", "a", "g", "e">>>>

\* lines 81-82
news_words == <<
    <<"n", "e", "w", "s">>,
    <<"h", "e", "a", "d", "l", "i", "n", "e">>,
    <<"h", "e", "a", "d", "l", "i", "n", "e", "s">>,
    <<"l", "a", "t", "e", "s", "t", " ", "n", "e", "w", "s">>,
    <<"b", "r", "e", "a", "k", "i", "n", "g", " ", "n", "e", "w", "s">>,
    <<"c", "u", "r", "r", "e", "n", "t", " ", "e", "v", "e", "n", "t", "s">>>>

\* line 88
game_words == <<
    <<"g", "a", "m", "e">>,
    <<"s", "c", "o", "r", "e">>,
    <<"w", "o", "n">>,
    <<"l", "o", "s", "t">>,
    <<"b", "e", "a", "t">>,
    <<"p", "l", "a", "y">>,
    <<"p", "l", "a", "y", "e", "d">>>>

\* line 89
game_when_words == <<
    <<"y", "e", "s", "t", "e", "r", "d", "a", "y">>,
    <<"t", "o", "d", "a", "y">>,
    <<"l", "a", "s", "t", " ", "n", "i", "g", "h", "t">>,
    <<"t", "e", "a", "m">>,
    <<"t", "h", "e", "y">>>>

\* line 93
launch_verbs == <<
    <<"o", "p", "e", "n">>,
    <<"l", "a", "u", "n", "c", "h">>,
    <<"s", "t", "a", "r", "t">>,
    <<"r", "u", "n">>>>

\* lines 94-95
app_names == <<
    <<"w", "o", "r", "d">>,
    <<"e", "x", "c", "e", "l">>,
    <<"p", "o", "w", "e", "r", "p", "o", "i", "n", "t">>,
    <<"n", "o", "t", "e", "p", "a", "d">>,
    <<"c", "h", "r", "o", "m", "e">>,
    <<"f", "i", "r", "e", "f", "o", "x">>,
    <<"e", "d", "g", "e">>,
    <<"c", "a", "l", "c", "u", "l", "a", "t", "o", "r">>,
    <<"p", "a", "i", "n", "t">>,
    <<"o", "u", "t", "l", "o", "o", "k">>>>

\* line 99
folder_verbs == <<
    <<"o", "p", "e", "n">>,
    <<"s", "h", "o", "w">>,
    <<"g", "o", " ", "t", "o">>,
    <<"a", "c", "c", "e", "s", "s">>>>

\* line 103
file_open_verbs == <<
    <<"o", "p", "e", "n">>,
    <<"o", "p", "e", "n", "e", "d">>,
    <<"l", "a", "u", "n", "c", "h">>,
    <<"s", "t", "a", "r", "t">>,
    <<"r", "u", "n">>>>

\* line 104
file_open_words == <<
    <<"r", "e", "s", "u", "m", "e">>,
    <<"p", "d", "f">>,
    <<"d", "o", "c">>,
    <<"f", "i", "l", "e">>,
    <<"d", "o", "c", "u", "m", "e", "n", "t">>>>

\* line 106
file_extensions == <<
    <<".", "p", "d", "f">>,
    <<".", "d", "o", "c">>,
    <<".", "d", "o", "c", "x">>,
    <<".", "t", "x", "t">>,
    <<".", "x", "l", "s", "x">>,
    <<".", "p", "p", "t">>>>

\* line 107
guardicore_verbs == <<
    <<"o", "p", "e", "n">>,
    <<"o", "p", "e", "n", "e", "d">>>>

\* line 111
file_search_verbs == <<
    <<"f", "i", "n", "d">>,
    <<"s", "e", "a", "r", "c", "h">>,
    <<"l", "o", "o", "k", " ", "f", "o", "r">>,
    <<"l", "o", "c", "a", "t", "e">>,
    <<"w", "h", "e", "r", "e", " ", "i", "s">>>>

\* line 112
file_search_words == <<
    <<"f", "i", "l", "e">>,
    <<"d", "o", "c", "u", "m", "e", "n", "t">>,
    <<"r", "e", "s", "u", "m", "e">>,
    <<"p", "d", "f">>,
    <<"d", "o", "c">>,
    <<".", "t", "x", "t">>,
    <<".", "d", "o", "c", "x">>>>

\* line 116
code_verbs == <<
    <<"w", "r", "i", "t", "e">>,
    <<"c", "r", "e", "a", "t", "e">>,
    <<"m", "a", "k", "e">>,
    <<"b", "u", "i", "l", "d">>>>

\* line 117
code_words == <<
    <<"c", "o", "d", "e">>,
    <<"s", "c", "r", "i", "p", "t">>,
    <<"p", "r", "o", "g", "r", "a", "m">>,
    <<"c", "a", "l", "c", "u", "l", "a", "t", "o", "r">>,
    <<"f", "u", "n", "c", "t", "i", "o", "n">>,
    <<"a", "p", "p">>>>

\* lines 121-123
llm_phrases == <<
    <<"s", "w", "i", "t", "c", "h", " ", "m", "o", "d", "e", "l">>,
    <<"u", "s", "e", " ", "m", "o", "d", "e", "l">>,
    <<"l", "a", "u", "n", "c", "h", " ", "m", "o", "d", "e", "l">>,
    <<"l", "i", "s", "t", " ", "m", "o", "d", "e", "l", "s">>,
    <<"c", "u", "r", "r", "e", "n", "t", " ", "m", "o", "d", "e", "l">>,
    <<"i", "n", "s", "t", "a", "l", "l", " ", "m", "o", "d", "e", "l">>,
    <<"s", "w", "i", "t", "c", "h", " ", "t", "o">>,
    <<"a", "c", "t", "i", "v", "a", "t", "e">>>>

\* line 124
llm_words == <<
    <<"m", "o", "d", "e", "l">>,
    <<"l", "l", "m">>,
    <<"c", "o", "d", "e", "r">>,
    <<"d", "e", "e", "p", "s", "e", "e", "k">>,
    <<"c", "o", "d", "e", "l", "l", "a", "m", "a">>,
    <<"d", "e", "f", "a", "u", "l", "t">>>>

\* line 132
time_words == <<
    <<"w", "h", "a", "t">>,
    <<"c", "u", "r", "r", "e", "n", "t">>,
    <<"t", "e", "l", "l">>>>

\* line 136
search_phrases == <<
    <<"w", "h", "o", " ", "i", "s">>,
    <<"w", "h", "a", "t", " ", "i", "s">>,
    <<"s", "e", "a", "r", "c", "h", " ", "f", "o", "r">>,
    <<"l", "o", "o", "k", " ", "u", "p">>,
    <<"t", "e", "l", "l", " ", "m", "e", " ", "a", "b", "o", "u", "t">>>>

\* personal_config.get_quick_files(): the names of a fixed configuration
quick_files == <<
    <<"b", "u", "d", "g", "e", "t">>>>

\* personal_config.get_websites(): the names of a fixed configuration
websites == <<
    <<"g", "o", "o", "g", "l", "e">>,
    <<"n", "e", "w", "s">>>>

\* personal_config.get_sports_teams(): the default teams (nina_config.py line 170)
sports_teams == <<
    <<"d", "o", "d", "g", "e", "r", "s">>,
    <<"l", "a", "k", "e", "r", "s">>,
    <<"r", "a", "m", "s">>,
    <<"c", "o", "w", "b", "o", "y", "s">>>>

\* is_schedule_query (lines 13-16)
IsScheduleQuery(command) == AnyIn(schedule_keywords, Lower(command))

\* is_vision_query (lines 18-28)
IsVisionQuery(command) == AnyIn(vision_query_keywords, Lower(command))

\* the conditions of determine_intent, in the order of its if statements
\* (lines 35-137); cmd is command.lower()
IntentRules(command) ==
    LET cmd == Lower(command)
        has(word) == Contains(word, cmd)
    IN  << [intent |-> "vision", matches |-> IsVisionQuery(command)],
           [intent |-> "fix_python",
            matches |-> has(<<"f", "i", "x">>) /\ AnyIn(fix_python_words, cmd)],
           [intent |-> "tech", matches |-> AnyIn(tech_keywords, cmd)],
           [intent |-> "open_quick_file",
            matches |-> has(<<"o", "p", "e", "n">>) /\ AnyIn(quick_files, cmd)],
           [intent |-> "open_website",
            matches |-> /\ AnyIn(website_verbs, cmd)
                        /\ \E k \in DOMAIN websites :
                               has(websites[k]) /\ websites[k] # <<"n", "e", "w", "s">>],
           [intent |-> "schedule", matches |-> IsScheduleQuery(command)],
           [intent |-> "hardware",
            matches |-> AnyIn(hardware_words, cmd) /\ AnyIn(hardware_sure_words, cmd)],
           [intent |-> "news", matches |-> AnyIn(news_words, cmd)],
           [intent |-> "sports",
            matches |-> \/ AnyIn(sports_teams, cmd)
                        \/ AnyIn(game_words, cmd) /\ AnyIn(game_when_words, cmd)],
           [intent |-> "open_app",
            matches |-> AnyIn(launch_verbs, cmd) /\ AnyIn(app_names, cmd)],
           [intent |-> "folder",
            matches |-> has(<<"f", "o", "l", "d", "e", "r">>) /\ AnyIn(folder_verbs, cmd)],
           [intent |-> "open_file",
            matches |-> \/ /\ AnyIn(file_open_verbs, cmd)
                           /\ AnyIn(file_open_words, cmd)
                           /\ ~has(<<"f", "o", "l", "d", "e", "r">>)
                        \/ AnyIn(file_extensions, cmd)
                        \/ /\ has(<<"g", "u", "a", "r", "d", "i", "c", "o", "r", "e">>)
                           /\ AnyIn(guardicore_verbs, cmd)
                           /\ ~has(<<"f", "o", "l", "d", "e", "r">>)],
           [intent |-> "files",
            matches |-> AnyIn(file_search_verbs, cmd) /\ AnyIn(file_search_words, cmd)],
           [intent |-> "code",
            matches |-> AnyIn(code_verbs, cmd) /\ AnyIn(code_words, cmd)],
           [intent |-> "llm_management",
            matches |-> AnyIn(llm_phrases, cmd) /\ AnyIn(llm_words, cmd)],
           [intent |-> "weather",
            matches |-> has(<<"w", "e", "a", "t", "h", "e", "r">>) \/ has(<<"t", "e", "m", "p", "e", "r", "a", "t", "u", "r", "e">>) \/ has(<<"f", "o", "r", "e", "c", "a", "s", "t">>)],
           [intent |-> "time", matches |-> has(<<"t", "i", "m", "e">>) /\ AnyIn(time_words, cmd)],
           [intent |-> "search", matches |-> AnyIn(search_phrases, cmd)] >>

\* the chain of if statements from the k-th on: the first condition that
\* holds returns its intent; line 140 returns "general" when none does
RECURSIVE IntentFrom(_, _)
IntentFrom(rules, k) ==
    IF k > Len(rules) THEN "general"
    ELSE IF rules[k].matches THEN rules[k].intent
    ELSE IntentFrom(rules, k + 1)

\* mutant: the web search rule tested before the time rule
DetermineIntentSearchFirst(command) ==
    LET rules == IntentRules(command)
        n == Len(rules)
    IN  IntentFrom(SubSeq(rules, 1, n - 2) \o <<rules[n], rules[n - 1]>>, 1)

\* determine_intent (lines 30-140)
DetermineIntent(command) == IntentFrom(IntentRules(command), 1)

----------------------------------------------------------------------------
(* CommandHandlers.process_command (nina_handlers.py), Nina.start (nina_main.py) *)

\* process_command: the exit words (line 92)
handler_exit_words == <<
    <<"s", "t", "o", "p">>,
    <<"e", "x", "i", "t">>,
    <<"g", "o", "o", "d", "b", "y", "e">>,
    <<"q", "u", "i", "t">>,
    <<"b", "y", "e">>>>

\* _is_vision_command: vision_keywords (lines 185-192)
vision_keywords == <<
    <<"w", "h", "a", "t", " ", "d", "o", " ", "y", "o", "u", " ", "s", "e", "e">>,
    <<"l", "o", "o", "k", " ", "a", "t">>,
    <<"c", "a", "n", " ", "y", "o", "u", " ", "s", "e", "e">>,
    <<"s", "h", "o", "w", " ", "m", "e", " ", "w", "h", "a", "t">>,
    <<"h", "e", "l", "p", " ", "m", "e", " ", "w", "i", "t", "h", " ", "t", "h", "i", "s">>,
    <<"h", "e", "l", "p", " ", "w", "i", "t", "h", " ", "c", "u", "r", "r", "e", "n", "t">>,
    <<"s", "t", "a", "r", "t", " ", "t", "r", "a", "i", "n", "i", "n", "g">>,
    <<"s", "t", "o", "p", " ", "t", "r", "a", "i", "n", "i", "n", "g">>,
    <<"w", "a", "t", "c", "h", " ", "m", "e">>,
    <<"d", "e", "m", "o", "n", "s", "t", "r", "a", "t", "e">>,
    <<"w", "h", "a", "t", " ", "c", "a", "n", " ", "y", "o", "u", " ", "d", "o", " ", "f", "o", "r">>,
    <<"f", "i", "x", " ", "t", "h", "e", " ", "s", "c", "r", "e", "e", "n">>,
    <<"r", "e", "a", "d", " ", "t", "h", "e", " ", "s", "c", "r", "e", "e", "n">>,
    <<"w", "h", "a", "t", " ", "s", "c", "r", "e", "e", "n">>,
    <<"w", "h", "a", "t", "'", "s", " ", "o", "n", " ", "m", "y", " ", "s", "c", "r", "e", "e", "n">>,
    <<"w", "h", "a", "t", " ", "a", "m", " ", "i", " ", "l", "o", "o", "k", "i", "n", "g", " ", "a", "t">>>>

\* _is_python_fix_command (lines 198-201)
python_fix_words == <<
    <<"p", "y", "t", "h", "o", "n">>,
    <<"c", "o", "d", "e">>,
    <<"f", "i", "l", "e">>,
    <<"i", "n", "d", "e", "n", "t", "a", "t", "i", "o", "n">>>>
template_words == <<
    <<"t", "e", "m", "p", "l", "a", "t", "e">>,
    <<"b", "o", "i", "l", "e", "r", "p", "l", "a", "t", "e">>>>

\* process_command: the intents of direct_handlers (lines 147-161)
DirectIntents ==
    {"folder", "open_file", "open_app", "open_quick_file", "open_website",
     "llm_management", "weather", "time", "news", "sports", "tech", "vision",
     "fix_python"}

\* the texts the recognizer returns in this model
N_ok == <<"o", "k">>
N_goodbye_nina == <<"g", "o", "o", "d", "b", "y", "e", " ", "n", "i", "n", "a">>
N_quit_at_once == <<"q", "u", "i", "t", " ", "a", "t", " ", "o", "n", "c", "e">>
N_the_time == <<"w", "h", "a", "t", " ", "i", "s", " ", "t", "h", "e", " ", "t", "i", "m", "e">>
N_memory == <<"h", "o", "w", " ", "m", "u", "c", "h", " ", "m", "e", "m", "o", "r", "y", " ", "d", "o", " ", "i", " ", "h", "a", "v", "e">>
N_dodgers == <<"w", "h", "o", " ", "w", "o", "n", " ", "t", "h", "e", " ", "d", "o", "d", "g", "e", "r", "s", " ", "g", "a", "m", "e">>
RecognizedTexts ==
    {N_ok, N_goodbye_nina, N_quit_at_once, N_the_time, N_memory, N_dodgers}

\* what a handler or an agent does when it is called: it returns with a result,
\* returns nothing, raises, never returns; missing: the agent (or the vision
\* system, the Python fixer) is not there
HandlerOutcomes == {"ok", "empty", "raise", "hang", "missing"}

\* mutant: the exit test on the whole command instead of a substring test
IsExitCommandWhole(command) ==
    \E k \in DOMAIN handler_exit_words : Lower(command) = handler_exit_words[k]

\* line 92: any(word in command.lower() for word in [...])
IsExitCommand(command) == AnyIn(handler_exit_words, Lower(command))

\* _is_vision_command (lines 182-193)
IsVisionCommand(command) == AnyIn(vision_keywords, Lower(command))

\* _is_python_fix_command (lines 195-201)
IsPythonFixCommand(command) ==
    LET cmd_lower == Lower(command)
    IN  \/ Contains(<<"f", "i", "x">>, cmd_lower) /\ AnyIn(python_fix_words, cmd_lower)
        \/ Contains(<<"e", "x", "p", "l", "a", "i", "n">>, cmd_lower) /\ Contains(<<"e", "r", "r", "o", "r">>, cmd_lower)
        \/ AnyIn(template_words, cmd_lower)

\* process_command lines 87-118, 146-175: the converted command and the branch
\* it takes
\* the checks of process_command in their order (lines 92-161)
RouteOf(converted, intent) ==
        [converted |-> converted,
         route |-> IF IsExitCommand(converted) THEN "exit"
                   ELSE IF IsVisionCommand(converted) THEN "vision"
                   ELSE IF IsPythonFixCommand(converted) THEN "fix_python"
                   ELSE IF IsScheduleQuery(converted) THEN "schedule"
                   ELSE IF intent \in DirectIntents THEN "direct"
                   ELSE "agent",
         intent |-> intent]

\* lines 88-89 and 118: the conversions, then determine_intent
RouteOfConverted(converted) == RouteOf(converted, DetermineIntent(converted))

CommandRoute(command) ==
    RouteOfConverted(FixVoiceRecognitionErrors(ConvertSpokenSymbols(command)))

\* what the call a route leads to leaves behind
CallResult(outcome) ==
    IF outcome = "raise" THEN "raised"
    ELSE IF outcome = "hang" THEN "blocked"
    ELSE "done"

NoCall == [result |-> "done", route |-> "-", intent |-> "-",
           handler |-> << >>, agent |-> << >>, spoken |-> << >>]

\* process_command (lines 85-180) on a command, with what the handler or the
\* agent it reaches does.  Only process_with_agent (lines 245-273) catches
\* exceptions; no call has a timeout.
\* result: "exit" (is_running cleared), "done" (returned), "raised" (an
\* exception leaves process_command), "blocked" (the call never returns)
HandleRoute(r, outcome) ==
    IF r.route = "exit" THEN [NoCall EXCEPT !.route = "exit", !.result = "exit"]
    ELSE IF r.route \in {"vision", "fix_python"}
    THEN IF outcome = "missing"
         THEN [NoCall EXCEPT !.route = r.route, !.spoken = <<"not available">>]
         ELSE [NoCall EXCEPT !.route = r.route, !.handler = <<r.route>>,
                             !.result = CallResult(outcome)]
    ELSE IF r.route = "schedule"
    THEN [NoCall EXCEPT !.route = "schedule", !.handler = <<"schedule">>,
                        !.spoken = IF outcome \in {"raise", "hang"} THEN << >>
                                   ELSE <<"schedule">>,
                        !.result = CallResult(outcome)]
    ELSE IF r.route = "direct"
    THEN IF r.intent \in {"vision", "fix_python"} /\ outcome = "missing"
         THEN [NoCall EXCEPT !.route = "direct", !.intent = r.intent,
                             !.spoken = <<"feedback", "not available">>]
         ELSE [NoCall EXCEPT !.route = "direct", !.intent = r.intent,
                             !.handler = <<r.intent>>,
                             !.spoken = <<"feedback">>,
                             !.result = CallResult(outcome)]
    ELSE \* lines 176-180 and process_with_agent
         IF outcome = "missing"
         THEN [NoCall EXCEPT !.route = "agent", !.intent = r.intent,
                             !.spoken = <<"feedback",
                                          "I'm having trouble with that request.">>]
         ELSE [NoCall EXCEPT
                  !.route = "agent",
                  !.intent = r.intent,
                  !.agent = <<r.converted>>,
                  !.result = IF outcome = "hang" THEN "blocked" ELSE "done",
                  !.spoken =
                      <<"feedback">> \o
                      (CASE outcome = "ok" -> <<"answer">>
                         [] outcome = "empty" -> <<"I couldn't complete that task.">>
                         [] outcome = "raise" ->
                                <<"I encountered an error. Please try again.">>
                         [] outcome = "hang" -> << >>)]

HandleCommand(command, outcome) == HandleRoute(CommandRoute(command), outcome)

\* the commands Nina.start can hand to process_command: the buffered texts
\* joined by blanks (nina_main.py line 183)
RECURSIVE BufferedUpTo(_)
BufferedUpTo(n) ==
    IF n = 0 THEN {<< >>}
    ELSE LET shorter == BufferedUpTo(n - 1)
             texts == {t \in RecognizedTexts : Len(t) > 2}
         IN  shorter \cup {Append(b, t) : b \in shorter, t \in texts}

NinaCommands == {JoinWords(b) : b \in BufferedUpTo(MaxBuffered) \ {<< >>}}

\* the route process_command takes on each of them
NinaRoutes == [command \in NinaCommands |-> CommandRoute(command)]

\* twice the pause that ends a command, 1.5 s (nina_main.py line 181)
TwiceCommandPause == 3

\* line 181: time.time() - self.last_command_time > 1.5
CommandPaused(t, last) == 2 * (t - last) > TwiceCommandPause

\* history: what the last iteration of Nina.start did (outcome: what the
\* handler or agent that was called did, "-" when none was called)
EvN == [op |-> "none", command |-> << >>, outcome |-> "-", result |-> "-",
        route |-> "-", intent |-> "-", handler |-> << >>, agent |-> << >>,
        spoken |-> << >>]

\* One iteration of `while self.is_running` (nina_main.py lines 168-186): read,
\* take the text the recognizer has (heard; << >>: none), and process the
\* buffered command after the pause; the handler or agent the command reaches
\* does one of HandlerOutcomes.  An exception that leaves the loop (a
\* read that fails, a command that raises) passes through the finally clause
\* (lines 190-197) and ends start.
StartLoop(read_ok, heard) ==
    /\ program = "nina"
    /\ is_running
    /\ ~in_call
    /\ IF ~read_ok
       THEN /\ is_running' = FALSE
            /\ ev' = [EvN EXCEPT !.op = "read_error"]
            /\ UNCHANGED <<command_buffer, last_command_time, in_call>>
       ELSE LET text == Strip(heard)
                kept == text # << >> /\ Len(text) > 2
                buffered == IF kept THEN Append(command_buffer, text)
                            ELSE command_buffer
                last == IF kept THEN now ELSE last_command_time
            IN  /\ Len(buffered) <= MaxBuffered
                /\ last_command_time' = last
                /\ IF buffered # << >> /\ CommandPaused(now, last)
                   THEN LET command == JoinWords(buffered)
                            r == NinaRoutes[command]
                        IN  \E outcome \in HandlerOutcomes :
                              LET h == HandleRoute(r, outcome)
                              IN  /\ command_buffer' = << >>
                                  /\ is_running' = (h.result \in {"done", "blocked"})
                                  /\ in_call' = (h.result = "blocked")
                                  /\ ev' = [op |-> "command", command |-> command,
                                            outcome |-> IF h.handler = << >> /\ h.agent = << >>
                                                        THEN "-" ELSE outcome,
                                            result |-> h.result,
                                            route |-> h.route, intent |-> h.intent,
                                            handler |-> h.handler, agent |-> h.agent,
                                            spoken |-> h.spoken]
                   ELSE /\ command_buffer' = buffered
                        /\ ev' = [EvN EXCEPT !.op = IF kept THEN "heard" ELSE "idle"]
                        /\ UNCHANGED <<is_running, in_call>>
    /\ UNCHANGED <<intVars, program, now, is_listening, is_speaking, is_active,
                   wake_detected_time, last_interaction_time, captured,
                   last_dispatch, audio_queue, audioVars>>

\* Nina.__init__ (lines 71-73); time.time() is far from last_command_time = 0
InitNina ==
    /\ program = "nina"
    /\ now = TwiceCommandPause
    /\ is_listening = TRUE
    /\ is_speaking = FALSE
    /\ is_active = FALSE
    /\ wake_detected_time = 0
    /\ last_interaction_time = 0
    /\ captured = 0
    /\ last_dispatch = -1
    /\ in_call = FALSE
    /\ audio_queue = << >>
    /\ buffer = << >>
    /\ silence_count = 0
    /\ speech_detected = FALSE
    /\ seq = 0
    /\ run = RunNone
    /\ reading = FALSE
    /\ echo = FALSE
    /\ paused = FALSE
    /\ InitIntegrationVars
    /\ InitNinaVars
    /\ ev = EvN

NextNina ==
    \/ StartLoop(FALSE, << >>)
    \/ \E heard \in RecognizedTexts \cup {<< >>} : StartLoop(TRUE, heard)
    \/ Tick

SpecNina == InitNina /\ [][NextNina]_vars

\* the two dispatchers: CommandHandlers under Nina.start, and _process_command
\* under _process_loop
SpecDispatch ==
    (InitNina \/ InitProcess) /\ [][NextNina \/ NextProcessFailures]_vars

\* the loop of Nina.start keeps running, and time passes
FairSpecNina == SpecNina /\ WF_vars(Tick)
         /\ WF_vars(StartLoop(TRUE, << >>))

----------------------------------------------------------------------------
(* IntentDetector.determine_intent on its own *)

\* phrases of commands: each one meets a condition of some rule
intent_phrases == <<
    <<"o", "p", "e", "n">>,
    <<"n", "e", "w", "s">>,
    <<"g", "o", "o", "g", "l", "e">>,
    <<"b", "u", "d", "g", "e", "t">>,
    <<"p", "i", "n", "g">>,
    <<"f", "i", "x", " ", "p", "y", "t", "h", "o", "n">>,
    <<"w", "h", "a", "t", " ", "i", "s">>,
    <<"t", "h", "e", " ", "t", "i", "m", "e">>,
    <<"w", "e", "a", "t", "h", "e", "r">>,
    <<"d", "o", "d", "g", "e", "r", "s">>,
    <<"m", "e", "m", "o", "r", "y">>,
    <<"f", "o", "l", "d", "e", "r">>,
    <<"w", "h", "a", "t", " ", "d", "o", " ", "y", "o", "u", " ", "s", "e", "e">>,
    <<"m", "y", " ", "s", "c", "h", "e", "d", "u", "l", "e">>,
    <<"f", "i", "n", "d", " ", "f", "i", "l", "e">>,
    <<"w", "r", "i", "t", "e", " ", "c", "o", "d", "e">>>>

\* the commands: one phrase, or two joined by a blank
IntentCommands ==
    {intent_phrases[k] : k \in DOMAIN intent_phrases}
    \cup {JoinWords(<<intent_phrases[j], intent_phrases[k]>>) :
             j \in DOMAIN intent_phrases, k \in DOMAIN intent_phrases}

\* determine_intent on each of them
IntentOf == [command \in IntentCommands |-> DetermineIntent(command)]

\* history: the last call and what it returned
EvD == [op |-> "none", command |-> << >>, intent |-> "-"]

\* a call of determine_intent(command)
DetermineIntentCall(command) ==
    /\ program = "intent"
    /\ ev' = [op |-> "intent", command |-> command, intent |-> IntentOf[command]]
    /\ UNCHANGED <<ninaVars, intVars, program, now, is_listening, is_speaking, procVars,
                   audio_queue, audioVars>>

InitIntent ==
    /\ program = "intent"
    /\ now = 0
    /\ is_listening = TRUE
    /\ is_speaking = FALSE
    /\ is_active = FALSE
    /\ wake_detected_time = 0
    /\ last_interaction_time = 0
    /\ captured = 0
    /\ last_dispatch = -1
    /\ in_call = FALSE
    /\ audio_queue = << >>
    /\ buffer = << >>
    /\ silence_count = 0
    /\ speech_detected = FALSE
    /\ seq = 0
    /\ run = RunNone
    /\ reading = FALSE
    /\ echo = FALSE
    /\ paused = FALSE
    /\ InitIntegrationVars
    /\ InitNinaVars
    /\ ev = EvD

NextIntent == \E command \in IntentCommands : DetermineIntentCall(command)

SpecIntent == InitIntent /\ [][NextIntent]_vars

----------------------------------------------------------------------------
(* Claims about the activation state machines *)

\* the last step handled a transcript (a text that is not blank)
Transcribed == ev.op = "transcript" /\ Len(Strip(ev.text)) > 0

\* the transcript contains the wake word
SaysWake(text) == Contains(wake_word, Lower(text))

\* the transcript begins with the wake word; Rest is what follows it, stripped
BeginsWithWake(text) ==
    /\ Len(text) >= Len(wake_word)
    /\ Lower(SubSeq(text, 1, Len(wake_word))) = wake_word
Rest(text) == Strip(SubSeq(text, Len(wake_word) + 1, Len(text)))

\* C3: in Idle (is_active False) a transcript without the wake word leaves
\* is_active False and dispatches nothing (no _process_command, no
\* interaction.think, no agent), in _process_loop and in _handle_input.
C3_IdleIgnoresNonWake ==
    (Transcribed /\ ~ev.wasActive /\ ~SaysWake(ev.text))
        => (~is_active /\ ev.dispatched = << >> /\ ev.agent = << >>)

\* Idle, less than the timeout after the wake word was last heard, and a
\* transcript without the wake word was handled
C3_Witness ==
    /\ program = "process"
    /\ Transcribed /\ ~ev.wasActive /\ ev.text = T_time
    /\ ev.elapsed < ActivationTimeout
    /\ ~is_active

\* C4: a transcript that is the wake word alone (nothing, or at most 2
\* characters, after it) makes is_active True, is acknowledged by exactly one
\* speak call, and dispatches nothing.
C4_WakeAloneAcknowledged ==
    (Transcribed /\ BeginsWithWake(ev.text) /\ Len(Rest(ev.text)) <= 2)
        => /\ is_active
           /\ ev.spoken = <<"Yes?">>
           /\ ev.dispatched = << >>
           /\ ev.agent = << >>

\* the wake word followed by two characters was acknowledged
C4_Witness ==
    Transcribed /\ ev.text = T_nina_ok /\ is_active /\ ev.spoken = <<"Yes?">>

\* C5 as stated: the wake word followed by a command of more than 2 characters
\* is dispatched at once with the wake word stripped, and agent.process is
\* invoked exactly once with it.
C5_WakeCommandReachesAgent ==
    (Transcribed /\ BeginsWithWake(ev.text) /\ Len(Rest(ev.text)) > 2)
        => /\ ev.dispatched = <<Rest(ev.text)>>
           /\ ev.agent = <<Rest(ev.text)>>

\* C5 amended: the transcript is dispatched at once with the wake word stripped
\* unless it contains a phrase filtered as Nina's own speech (then nothing is
\* dispatched); agent.process is invoked exactly once when the command holds no
\* exit word and no quick-response trigger and the router selects an agent, and
\* not at all otherwise.
C5_WakeCommandDispatched ==
    (Transcribed /\ BeginsWithWake(ev.text) /\ Len(Rest(ev.text)) > 2)
        => IF OwnSpeech(ev.text)
           THEN ev.dispatched = << >> /\ ev.agent = << >>
           ELSE /\ ev.dispatched = <<Rest(ev.text)>>
                /\ ev.agent = IF /\ ~IsExit(Rest(ev.text))
                                 /\ ~IsQuick(Rest(ev.text))
                                 /\ ev.selected # "none"
                              THEN <<Rest(ev.text)>> ELSE << >>

\* "Nina what time is it" went to the agent the router selected
C5_Witness ==
    /\ Transcribed /\ ev.text = T_nina_time
    /\ ev.selected = "casual_agent"
    /\ ev.agent = <<Rest(T_nina_time)>>
    /\ ~is_active

C7_LateTranscriptDeactivates ==
    (Transcribed /\ ev.wasActive /\ ev.elapsed > ActivationTimeout)
        => /\ ev.dispatched # << >> => SaysWake(ev.text)
           /\ ~SaysWake(ev.text) => ~is_active

\* C7 amended: such a transcript is not treated as a command (it is dispatched
\* only if it holds the wake word), but handling it does not clear is_active:
\* without the wake word is_active stays True, until the next poll of the empty
\* queue clears it.
C7_LateTranscriptNotDispatched ==
    (Transcribed /\ ev.wasActive /\ ev.elapsed > ActivationTimeout)
        => /\ ev.dispatched # << >> => SaysWake(ev.text)
           /\ ~SaysWake(ev.text) => (is_active /\ ev.dispatched = << >>)

\* Active, after the timeout: a transcript without the wake word was handled
C7_Witness ==
    /\ Transcribed /\ ev.text = T_time
    /\ ev.wasActive /\ ev.elapsed > ActivationTimeout
    /\ ev.dispatched = << >>

\* C8: Active and no utterance arrives for longer than the timeout: the state
\* returns to Idle (is_active False), and that step makes no speak call.
C8_SilenceReturnsToIdle ==
    /\ [](ev.op = "timeout" => (~is_active /\ ev.spoken = << >>))
    /\ \A k \in 0 .. MaxUtterances :
           (/\ is_active /\ is_listening
            /\ audio_queue = << >> /\ captured = k
            /\ now + ActivationTimeout < MaxTime)
               ~> (~is_active \/ captured > k)

\* the poll of the empty queue found the activation timed out
C8_Witness ==
    ev.op = "timeout" /\ ev.wasActive /\ ev.elapsed > ActivationTimeout /\ ~is_active

----------------------------------------------------------------------------
(* Claims about barge-in in NinaIntegration *)

\* C9: when on_speech_detected is called while nina_speak is playing a
\* response, the callback takes the interrupt branch and cancels the playback
\* (stop_speaking set, the player stopped) before it goes on to transcribe the
\* utterance that interrupted.
C9_BargeInCancelsPlayback ==
    \A t \in Callbacks :
        cb[t].playing
            => \/ pc[t] \in {"set", "stop"}
               \/ pc[t] = "transcribe" /\ cb[t].speaking /\ cb[t].cancelled

----------------------------------------------------------------------------
(* Claims about exit phrases and failures *)

\* the transcript contains an exit phrase of the pipeline that runs
SaysExit(text) ==
    AnyIn(IF program = "process" THEN exit_words ELSE core_exit_words, Lower(text))

\* C12: a transcript that contains both the wake word and an exit phrase is
\* handled as an exit: _process_loop ends the listening loop with the shutdown
\* message, _handle_input ends the session with its goodbye; no agent is
\* invoked, nothing is dispatched to interaction.think, and the transcript is
\* neither acknowledged as a wake-up nor dropped.
C12_ExitTakesPrecedence ==
    (Transcribed /\ SaysWake(ev.text) /\ SaysExit(ev.text))
        => IF program = "process"
           THEN /\ ~is_listening
                /\ ev.spoken = <<"Shutting down. Goodbye!">>
                /\ ev.agent = << >>
           ELSE /\ ~is_active
                /\ ev.spoken = <<"Goodbye! Talk to you later.">>
                /\ ev.dispatched = << >>

----------------------------------------------------------------------------
(* Claims about Nina.start and CommandHandlers.process_command *)

\* the exit phrases the specification lists
exit_phrases == <<
    <<"g", "o", "o", "d", "b", "y", "e">>,
    <<"s", "t", "o", "p">>,
    <<"e", "x", "i", "t">>,
    <<"q", "u", "i", "t">>>>

\* Nina.start has handed a command to process_command
Processed == program = "nina" /\ ev.op = "command"

\* C13: a command that contains an exit phrase invokes no handler and no
\* agent and clears is_running; once is_running is cleared the loop of
\* Nina.start processes nothing more.
C13_ExitEndsListening ==
    /\ []((Processed /\ AnyIn(exit_phrases, Lower(ev.command)))
            => (~is_running /\ ev.result = "exit"
                /\ ev.handler = << >> /\ ev.agent = << >>))
    /\ [][(program = "nina" /\ ~is_running)
            => (~is_running' /\ ev' = ev /\ command_buffer' = command_buffer)]_vars

C13_Witness ==
    /\ Processed
    /\ ev.command = JoinWords(<<N_the_time, N_quit_at_once>>)
    /\ ~is_running

----------------------------------------------------------------------------
(* Claims about failures *)

\* C14: a stream.read that raises is fatal in both capture loops: after it the
\* loop has stopped (is_listening is False); the read is not tried again.
C14_ReadFailureIsFatal ==
    (program \in {"audio", "capture"} /\ ev.op = "read_error") => ~is_listening

\* C15: a command whose handler or agent raises does not end the loop of
\* Nina.start: after it is_running is still True.
C15_FailingCommandKeepsLoop ==
    (Processed /\ ev.outcome = "raise") => is_running

\* C16: a dispatch does not block for good: when agent.process does not
\* return, the thread that processes commands is not held by the call
\* (in_call), neither in process_with_agent nor in _process_command.
C16_DispatchNeverBlocks ==
    (program \in {"nina", "process"} /\ ev.agent # << >>) => ~in_call

----------------------------------------------------------------------------
(* Claims about IntentDetector *)

\* the rules whose condition holds, by their place in the list
Matching(rules) == {k \in DOMAIN rules : rules[k].matches}

\* the intent of the earliest of them, "general" when there is none
FirstOf(rules) ==
    LET hits == Matching(rules)
    IN  IF hits = {} THEN "general"
        ELSE rules[CHOOSE k \in hits : \A j \in hits : k <= j].intent

FirstMatch(command) == FirstOf(IntentRules(command))

\* the rules hold for more than one intent
Ambiguous(rules) ==
    \E j, k \in Matching(rules) : rules[j].intent # rules[k].intent

----------------------------------------------------------------------------
(* Claims about the two threads of SimpleNinaVoice *)

\* the utterances waiting on audio_queue, by their capture numbers
Waiting(q) == {q[k] : k \in DOMAIN q}

\* _process_loop takes an utterance off the queue and transcribes it
Transcribes ==
    /\ program = "process"
    /\ Len(audio_queue') < Len(audio_queue)
    /\ ev'.op # "skipped"

\* C18: utterances wait on audio_queue in capture order, the one that
\* _process_loop transcribes was captured before every other one that waits,
\* and none is transcribed while the processing of an earlier one has not
\* finished (in_call).
C18_TranscribedInCaptureOrder ==
    /\ [](program = "process"
            => \A j, k \in DOMAIN audio_queue :
                   j < k => audio_queue[j] < audio_queue[k])
    /\ [][Transcribes
            => /\ ~in_call
               /\ Waiting(audio_queue') \subseteq Waiting(audio_queue)
               /\ \A u \in Waiting(audio_queue) \ Waiting(audio_queue') :
                      \A w \in Waiting(audio_queue') : u < w]_vars
    /\ [][(program = "process" /\ in_call)
            => Len(audio_queue') >= Len(audio_queue)]_vars

\* an utterance has been transcribed and its agent does not return, while a
\* later one waits
C18_Witness ==
    /\ program = "process"
    /\ ev.op = "transcript"
    /\ audio_queue # << >>
    /\ in_call

\* C19: no utterance put on audio_queue holds a frame that was read while
\* Nina was speaking (is_speaking True, from before a speak call to after it).
C19_NoEchoCaptured ==
    (program = "echo" /\ ev.op = "frame" /\ ev.put # << >>) => ~ev.echo

\* C20: after an iteration of _process_loop in which speech.speak raised
\* (the wake-word acknowledgement or a speak of _process_command) is_speaking
\* is False again, so that _audio_loop reads frames.
C20_SpeakFailureRecovers ==
    (program = "process" /\ ev.op = "transcript" /\ ev.speak_failed) => ~is_speaking

----------------------------------------------------------------------------
(* C21: in SimpleNinaVoice the activation state (is_active and the time of  *)
(* the wake word) is written by the processing thread only: every step     *)
(* that changes it is an iteration of _process_loop on a transcript or on  *)
(* an empty queue, and no step of _audio_loop (a test, a read, a put)      *)
(* changes it.                                                             *)

ActivationState == <<is_active, wake_detected_time>>

C21_ActivationSingleWriter ==
    [][(program \in {"process", "echo"} /\ ActivationState' # ActivationState)
         => /\ program = "process"
            /\ ev'.op \in {"transcript", "timeout"}
            /\ captured' = captured
            /\ now' = now
            /\ UNCHANGED audioVars]_vars

\* _process_loop has activated on the second utterance the capture thread put
C21_Witness ==
    /\ program = "process" /\ ev.op = "transcript" /\ is_active /\ ~ev.wasActive
    /\ captured = 2 /\ wake_detected_time = now

----------------------------------------------------------------------------
(* C22: in _audio_loop, when more than 160 frames have been collected       *)
(* without the utterance closing, the utterance is closed by force and the *)
(* frames collected so far are put on audio_queue.                         *)

C22_OverflowEmitsCollected ==
    (program = "audio" /\ ev.op = "frame" /\ ev.reset)
        => (ev.put # << >> /\ audio_queue # << >>)

----------------------------------------------------------------------------
(* C30: the buffer of _audio_loop holds at most 160 frames at the end of    *)
(* every iteration of the loop, whatever the frames are and however the    *)
(* processing thread sets and clears is_speaking in between.               *)

C30_BufferBounded ==
    program = "echo" => Len(buffer) <= MaxBufferChunks

\* the buffer is full, and the processing thread began to speak meanwhile
C30_Witness ==
    /\ program = "echo" /\ ev.op = "muted"
    /\ Len(buffer) = MaxBufferChunks /\ is_speaking

----------------------------------------------------------------------------
(* C23: utterances that close while the processing thread is busy wait on   *)
(* audio_queue, which never holds more than 2 of them: older ones beyond   *)
(* that are dropped.                                                       *)

C23_QueueDepthBounded ==
    program = "process" => Len(audio_queue) <= 2

----------------------------------------------------------------------------
(* C29: every utterance _audio_loop puts on audio_queue is made of          *)
(* consecutive frames from one speech onset to its end of speech: it never *)
(* joins frames collected before a period in which the capture was muted   *)
(* (is_speaking True) with frames collected after it.                      *)

C29_UtteranceNotJoinedAcrossMute ==
    (program = "echo" /\ ev.op = "frame" /\ ev.put # << >>) => ~ev.joined

----------------------------------------------------------------------------
(* C24: in NinaCore._handle_input, when the state is Active and a           *)
(* transcript arrives later than the timeout (10 s) after the last         *)
(* interaction, the state becomes Idle and the transcript is a fresh       *)
(* wake-word check, not a command: it is handed to interaction.think only  *)
(* if it holds the wake word, and without it is_active is left False.      *)

C24_CoreLateTranscriptIsWakeCheck ==
    (program = "core" /\ ev.op = "transcript" /\ ev.wasActive
        /\ ev.elapsed > CoreTimeout)
        => /\ ev.dispatched # << >> => HasWakeWord(ev.text)
           /\ ~HasWakeWord(ev.text) => ~is_active

----------------------------------------------------------------------------
(* Claims about the wake word of NinaIntegration *)

\* process_voice_command has handled a transcript
VoiceHandled == program = "voice" /\ ev.op = "command"

\* C25: a transcript that is the wake word "nina" alone is acknowledged with
\* the prompt and is not dispatched: interaction.think is not called for it.
C25_WakeAloneNotDispatched ==
    (VoiceHandled /\ Lower(ev.text) = wake_word)
        => (ev.spoken = <<SayYes>> /\ ev.thought = << >>)

\* C26: whenever a transcript matches a wake pattern ("nina", "nena", "mina",
\* "lina"), the wake word is stripped from it: the text handed to
\* interaction.think does not contain a wake pattern any more.
C26_WakeWordStripped ==
    (VoiceHandled /\ ev.wake /\ ev.thought # << >>) => ~IsWakeWord(ev.thought[1])

\* C27: the activation of NinaIntegration times out: a transcript without a
\* wake word that arrives later than the activation timeout (at most 10 s)
\* after the last wake finds awake False, is not dispatched to
\* interaction.think, and leaves awake False.
C27_AwakeTimesOut ==
    (VoiceHandled /\ ~ev.wake /\ ev.elapsed > CoreTimeout)
        => (~ev.wasAwake /\ ev.thought = << >> /\ ~awake)

\* some word of text, lowered and without its punctuation, is one of patterns
WakeAsWord(patterns, text) ==
    LET words == SplitWords(Lower(text))
    IN  \E k \in DOMAIN words : \E j \in DOMAIN patterns :
            StripPunctuation(words[k]) = patterns[j]

\* C28: a transcript in which a wake word occurs only inside a longer word is
\* no wake-word match: in Idle, _process_loop does not activate on it,
\* acknowledges nothing and dispatches nothing, and is_wake_word is False
\* for it.
C28_WakeWordIsExactWord ==
    /\ (program = "process" /\ Transcribed /\ ~ev.wasActive
            /\ ~WakeAsWord(<<wake_word>>, ev.text))
          => (~is_active /\ ev.spoken = << >> /\ ev.dispatched = << >>)
    /\ (VoiceHandled /\ ~WakeAsWord(wake_patterns, ev.text)) => ~ev.wake

====
